---- MODULE Spec2Model ----
(***************************************************************************)
(* A model of the weiruan-music server: the stream handlers' Range         *)
(* handling (server/index.js and the earlier server file kept in           *)
(* unnamed/part_002), the session registries with connect / list / stream  *)
(* / disconnect, the life of a piped stream response, the listings, the    *)
(* event loop, the batch identification, the library paths, and the        *)
(* player of public/js/app.js.                                             *)
(*                                                                         *)
(* JavaScript strings are sequences of one-character strings, so that      *)
(* replace, split, parseInt, extname and toLowerCase are computed as the   *)
(* code computes them.                                                     *)
(***************************************************************************)
EXTENDS Integers, Sequences, FiniteSets, TLC

VARIABLES
    req,          \* the stream, list or scan request being answered
    res,          \* the response the handler produced for req
    now,          \* Date.now()
    createClient, \* the WebDAV client factory, null until its module is loaded
    clients,      \* the session registries: registry -> (clientId -> session)
    pending,      \* the WebDAV connects waiting for their probe
    issued,       \* the clientIds returned by successful connects so far
    disconnected, \* <<registry, clientId>> named by a disconnect after clientId was issued
    out,          \* the answer to the last connect/list/stream/disconnect
    serverUp,     \* the server process is running
    streams,      \* the piped stream responses
    tasks,        \* the requests in progress: their handler and where it stands
    running,      \* the request whose handler holds the event loop, 0 for none
    scanProgress, \* the progress of the batch identification
    loops,        \* the background loops of /api/scan/start
    scanOut,      \* the answer to the last /api/scan/start or /api/scan/stop
    playlist,     \* the player's playlist: the ids of its tracks
    currentIndex, \* the player's current index, -1 for none
    repeatMode,   \* "none", "all" or "one"
    isShuffle,    \* shuffle is on
    settings,     \* the player's settings: autoplay
    audio,        \* the audio element: the track of its src and its state
    timers,       \* the pending setTimeout callbacks of onError
    loads,        \* the start-up fetches of the player
    userInputs,   \* the user's actions on the player so far
    world         \* what the player meets: the tracks that fail to play and
                  \* the playlist saved on the server

rangeVars == <<req, res>>
loopVars == <<tasks, running>>
playerVars == <<playlist, currentIndex, repeatMode, isShuffle, settings, audio,
                timers, loads, userInputs, world>>
scanVars == <<scanProgress, loops, scanOut>>
serverVars == <<req, res, now, createClient, clients, pending, issued,
                disconnected, out, serverUp, streams, tasks, running,
                scanProgress, loops, scanOut>>
vars == <<serverVars, playerVars>>

----------------------------------------------------------------------------
(* Bounds of the model.                                                    *)

\* largest file size (bytes) of a streamed file
MaxSize == 3
\* largest number written in a Range header
MaxNum == 4
\* largest value of Date.now(), counted from the start of the server
MaxClock == 1
\* distinct clientIds issued plus connects waiting for their probe
MaxConnects == 2
\* distinct <<registry, clientId>> pairs of issued clientIds that disconnects may name
MaxDisconnects == 1
\* stream responses that may be piped
MaxStreams == 2
\* chunks of a piped source
MaxChunks == 2
\* entries of a directory or of a remote listing
MaxEntries == 2
\* files of a sub-directory
MaxSubEntries == 1
\* requests in progress at the same time
MaxTasks == 3
\* songs of the metadata cache
MaxSongs == 2
\* tracks the player may meet
MaxTracks == 3
\* actions of the user on the player
MaxInputs == 3
\* setTimeout callbacks of onError waiting at the same time
MaxTimers == 2
\* music files a batch identification finds
MaxScanFiles == 2
\* background loops of /api/scan/start alive at the same time
MaxLoops == 2

----------------------------------------------------------------------------
(* JavaScript values.                                                      *)

\* The number NaN (parseInt of a string without leading digits); it is
\* outside every number the model computes.
NaN == -1000

\* null, as Headers.get returns it for a header the upstream did not send.
Null == <<"null">>

JsSub(a, b) == IF a = NaN \/ b = NaN THEN NaN ELSE a - b
JsAdd(a, b) == IF a = NaN \/ b = NaN THEN NaN ELSE a + b
\* a > b in JavaScript: false whenever an operand is NaN
JsGt(a, b) == a # NaN /\ b # NaN /\ a > b

Digits == <<"0", "1", "2", "3", "4", "5", "6", "7", "8", "9">>
IsDigit(c) == \E i \in 1..10 : Digits[i] = c
DigitVal(c) == (CHOOSE i \in 1..10 : Digits[i] = c) - 1

UpperCase == <<"A", "B", "C", "D", "E", "F", "G", "H", "I", "J", "K", "L", "M",
               "N", "O", "P", "Q", "R", "S", "T", "U", "V", "W", "X", "Y", "Z">>
LowerCase == <<"a", "b", "c", "d", "e", "f", "g", "h", "i", "j", "k", "l", "m",
               "n", "o", "p", "q", "r", "s", "t", "u", "v", "w", "x", "y", "z">>

\* String.prototype.toLowerCase
ToLowerCase(s) ==
    [i \in 1..Len(s) |->
        IF \E k \in 1..26 : UpperCase[k] = s[i]
        THEN LowerCase[CHOOSE k \in 1..26 : UpperCase[k] = s[i]]
        ELSE s[i]]

\* the decimal digits of a natural number
RECURSIVE NatToString(_)
NatToString(n) ==
    IF n < 10 THEN <<Digits[n + 1]>>
    ELSE NatToString(n \div 10) \o <<Digits[(n % 10) + 1]>>

\* String(n), as a template literal or a header value renders a number
NumToString(n) ==
    IF n = NaN THEN <<"N", "a", "N">>
    ELSE IF n < 0 THEN <<"-">> \o NatToString(-n)
    ELSE NatToString(n)

\* pat occurs in s at position i
MatchesAt(pat, s, i) ==
    /\ i + Len(pat) - 1 <= Len(s)
    /\ \A k \in 1..Len(pat) : s[i + k - 1] = pat[k]

\* String.prototype.replace(pattern, replacement) for a literal pattern
\* without the g flag: the first occurrence only
ReplaceFirst(s, pat, rep) ==
    IF \E i \in 1..Len(s) : MatchesAt(pat, s, i)
    THEN LET i == CHOOSE j \in 1..Len(s) :
                    /\ MatchesAt(pat, s, j)
                    /\ \A k \in 1..(j - 1) : ~MatchesAt(pat, s, k)
         IN  SubSeq(s, 1, i - 1) \o rep \o SubSeq(s, i + Len(pat), Len(s))
    ELSE s

\* String.prototype.split(sep) for a one-character separator
RECURSIVE Split(_, _)
Split(s, sep) ==
    IF \E i \in 1..Len(s) : s[i] = sep
    THEN LET i == CHOOSE j \in 1..Len(s) :
                    s[j] = sep /\ \A k \in 1..(j - 1) : s[k] # sep
         IN  <<SubSeq(s, 1, i - 1)>> \o Split(SubSeq(s, i + 1, Len(s)), sep)
    ELSE <<s>>

\* the value of the longest prefix of digits of s; s starts with a digit
RECURSIVE DigitsValue(_, _)
DigitsValue(s, acc) ==
    IF s = <<>> \/ ~IsDigit(Head(s)) THEN acc
    ELSE DigitsValue(Tail(s), acc * 10 + DigitVal(Head(s)))

RECURSIVE TrimStart(_)
TrimStart(s) == IF s # <<>> /\ Head(s) = " " THEN TrimStart(Tail(s)) ELSE s

\* parseInt(s, 10): leading white space, an optional sign, then the longest
\* run of digits; NaN when there is no digit
ParseInt(s) ==
    LET t == TrimStart(s)
        neg == t # <<>> /\ Head(t) = "-"
        u == IF t # <<>> /\ Head(t) \in {"-", "+"} THEN Tail(t) ELSE t
    IN  IF u = <<>> \/ ~IsDigit(Head(u)) THEN NaN
        ELSE IF neg THEN 0 - DigitsValue(u, 0) ELSE DigitsValue(u, 0)

\* path.extname: from the last "." of the last path segment to the end,
\* empty when there is none or when the segment starts with it
ExtName(p) ==
    LET slashes == {i \in 1..Len(p) : p[i] = "/"}
        from == IF slashes = {} THEN 1
                ELSE (CHOOSE i \in slashes : \A j \in slashes : j <= i) + 1
        dots == {i \in from..Len(p) : p[i] = "."}
        last == CHOOSE i \in dots : \A j \in dots : j <= i
    IN  IF dots = {} \/ last = from THEN <<>> ELSE SubSeq(p, last, Len(p))

----------------------------------------------------------------------------
(* Audio MIME types.                                                       *)

audioMimeTypes ==
    { <<<<".", "m", "p", "3">>, "audio/mpeg">>,
      <<<<".", "w", "a", "v">>, "audio/wav">>,
      <<<<".", "f", "l", "a", "c">>, "audio/flac">>,
      <<<<".", "o", "g", "g">>, "audio/ogg">>,
      <<<<".", "m", "4", "a">>, "audio/mp4">>,
      <<<<".", "a", "a", "c">>, "audio/aac">>,
      <<<<".", "w", "m", "a">>, "audio/x-ms-wma">> }

\* audioMimeTypes[ext] || 'audio/mpeg'
ContentTypeOf(name) ==
    LET ext == ToLowerCase(ExtName(name))
    IN  IF \E e \in audioMimeTypes : e[1] = ext
        THEN (CHOOSE e \in audioMimeTypes : e[1] = ext)[2]
        ELSE "audio/mpeg"

----------------------------------------------------------------------------
(* The inputs of a stream request.                                         *)

S_bytesEq == <<"b", "y", "t", "e", "s", "=">>
S_abc == <<"a", "b", "c">>
S_def == <<"d", "e", "f">>

\* what stands before and after the dash of a Range header
Tokens ==
    {NatToString(n) : n \in 0..MaxNum} \cup {<<>>, S_abc, S_def, <<"1", "x">>}

\* the Range header values a client sends: well-formed, malformed and empty
RangeHeaders ==
    {S_bytesEq \o a \o <<"-">> \o b : a \in Tokens, b \in Tokens}
        \cup {<<>>, S_abc, <<"1", "-", "2">>, S_bytesEq \o <<"1">>}

FileNames ==
    { <<"a", ".", "m", "p", "3">>,
      <<"B", ".", "F", "L", "A", "C">>,
      <<"c", ".", "t", "x", "t">> }

\* the bytes of a file of size t: the byte at offset i is 100 + i
Content(t) == [i \in 1..t |-> 99 + i]

Files == {[name |-> n, bytes |-> Content(t)] : n \in FileNames, t \in 0..MaxSize}

\* if (range): an absent header (undefined) and the empty string are falsy
HasRange(r) == r.hasRange /\ r.range # <<>>

----------------------------------------------------------------------------
(* Responses.                                                              *)

NoHeaders == [h \in {} |-> <<>>]

Response(status, kind, headers, body, success, fault) ==
    [status |-> status, kind |-> kind, headers |-> headers, body |-> body,
     success |-> success, fault |-> fault]

\* res.status(code).json({ success: false, error }) or json({ error })
JsonError(status, success) ==
    Response(status, "json", NoHeaders, <<>>, success, "none")

\* an exception thrown out of a synchronous handler: Express answers 500
ExpressError == Response(500, "html", NoHeaders, <<>>, "absent", "none")

corsHeaders ==
    ("Access-Control-Allow-Origin" :> "*")
        @@ ("Access-Control-Allow-Methods" :> "GET, OPTIONS")
        @@ ("Access-Control-Allow-Headers" :> "Range")
        @@ ("Access-Control-Expose-Headers"
                :> "Content-Range, Content-Length, Accept-Ranges")
        @@ ("Cache-Control" :> "public, max-age=86400")

\* `bytes ${start}-${end}/${fileSize}`
ContentRangeValue(start, end, fileSize) ==
    <<"b", "y", "t", "e", "s", " ">> \o NumToString(start) \o <<"-">>
        \o NumToString(end) \o <<"/">> \o NumToString(fileSize)

PartialHeaders(start, end, fileSize, chunksize, contentType) ==
    ("Content-Range" :> ContentRangeValue(start, end, fileSize))
        @@ ("Accept-Ranges" :> "bytes")
        @@ ("Content-Length" :> NumToString(chunksize))
        @@ ("Content-Type" :> contentType)

FullHeaders(fileSize, contentType) ==
    ("Content-Length" :> NumToString(fileSize))
        @@ ("Content-Type" :> contentType)
        @@ ("Accept-Ranges" :> "bytes")

----------------------------------------------------------------------------
(* Range parsing, as every direct-streaming handler does it.               *)

\* ParseRange with the open end taken as fileSize instead of fileSize - 1
ParseRangeEndAtSize(range, fileSize) ==
    LET parts == Split(ReplaceFirst(range, S_bytesEq, <<>>), "-")
    IN  [start |-> ParseInt(parts[1]),
         end   |-> IF Len(parts) >= 2 /\ parts[2] # <<>>
                   THEN ParseInt(parts[2])
                   ELSE fileSize]

\* const parts = range.replace(/bytes=/, '').split('-');
\* const start = parseInt(parts[0], 10);
\* const end = parts[1] ? parseInt(parts[1], 10) : fileSize - 1;
ParseRange(range, fileSize) ==
    LET parts == Split(ReplaceFirst(range, S_bytesEq, <<>>), "-")
    IN  [start |-> ParseInt(parts[1]),
         end   |-> IF Len(parts) >= 2 /\ parts[2] # <<>>
                   THEN ParseInt(parts[2])
                   ELSE JsSub(fileSize, 1)]

\* (end - start) + 1
ChunkSize(start, end) == JsAdd(JsSub(end, start), 1)

\* fs.createReadStream(path, { start, end }) throws unless both are
\* integers >= 0 with start <= end
ReadStreamThrows(start, end) ==
    start = NaN \/ end = NaN \/ start < 0 \/ end < 0 \/ start > end

\* the bytes a read stream over [start, end] delivers: both inclusive, cut
\* at the end of the file
ReadStreamBytes(bytes, start, end) ==
    SubSeq(bytes, start + 1, (IF end < Len(bytes) - 1 THEN end ELSE Len(bytes) - 1) + 1)

\* what the remote service answers to Range: bytes=<start>-<end>: a header
\* that is no byte range is ignored (200, whole file), a start at or past the
\* end is refused (416), otherwise the bytes asked for (206)
RemoteRange(bytes, start, end) ==
    IF start = NaN \/ end = NaN \/ start > end
    THEN [status |-> 200, body |-> bytes]
    ELSE IF start >= Len(bytes)
    THEN [status |-> 416, body |-> <<>>]
    ELSE [status |-> 206, body |-> ReadStreamBytes(bytes, start, end)]

----------------------------------------------------------------------------
(* The direct-streaming handlers of server/index.js.                       *)

\* GET /api/music/:filename (uploaded files). The read stream is created
\* before the head is written and nothing catches what it throws.
MusicStream(file, exists, hasRange, range) ==
    IF ~exists THEN JsonError(404, "absent")
    ELSE
    LET fileSize == Len(file.bytes)
        contentType == ContentTypeOf(file.name)
        r == ParseRange(range, fileSize)
    IN  IF hasRange /\ range # <<>>
        THEN IF ReadStreamThrows(r.start, r.end) THEN ExpressError
             ELSE Response(206, "stream",
                      corsHeaders @@ PartialHeaders(r.start, r.end, fileSize,
                                        ChunkSize(r.start, r.end), contentType),
                      ReadStreamBytes(file.bytes, r.start, r.end), "absent", "none")
        ELSE Response(200, "stream",
                 corsHeaders @@ FullHeaders(fileSize, contentType),
                 file.bytes, "absent", "none")

\* GET /api/webdav/stream. The WebDAV client sends the range to the remote
\* server; a refused range surfaces as an error of the piped stream.
WebdavStream(file, connected, statOk, hasRange, range) ==
    IF ~connected THEN JsonError(400, "false")
    ELSE IF ~statOk THEN JsonError(500, "false")
    ELSE
    LET fileSize == Len(file.bytes)
        contentType == ContentTypeOf(file.name)
        r == ParseRange(range, fileSize)
        remote == RemoteRange(file.bytes, r.start, r.end)
    IN  IF hasRange /\ range # <<>>
        THEN Response(206, "stream",
                 PartialHeaders(r.start, r.end, fileSize,
                     ChunkSize(r.start, r.end), contentType),
                 remote.body, "absent",
                 IF remote.status = 416 THEN "sourceError" ELSE "none")
        ELSE Response(200, "stream", FullHeaders(fileSize, contentType),
                 file.bytes, "absent", "none")

\* GET /api/gdrive/stream. fileSize = parseInt(fileMeta.data.size) is NaN
\* for a file whose metadata carries no size; a refused range makes the
\* media request throw before the head is written.
GdriveStream(file, connected, metaOk, sizeKnown, hasRange, range) ==
    IF ~connected THEN JsonError(400, "false")
    ELSE IF ~metaOk THEN JsonError(500, "false")
    ELSE
    LET fileSize == IF sizeKnown THEN Len(file.bytes) ELSE NaN
        contentType == ContentTypeOf(file.name)
        r == ParseRange(range, fileSize)
        remote == RemoteRange(file.bytes, r.start, r.end)
    IN  IF hasRange /\ range # <<>>
        THEN IF remote.status = 416 THEN JsonError(500, "false")
             ELSE Response(206, "stream",
                      PartialHeaders(r.start, r.end, fileSize,
                          ChunkSize(r.start, r.end), contentType),
                      remote.body, "absent", "none")
        ELSE Response(200, "stream", FullHeaders(fileSize, contentType),
                 file.bytes, "absent", "none")

\* GET /api/local/stream. The head is written before the read stream is
\* created: when createReadStream throws, the catch block calls
\* res.status(500).json(...) on a response whose head is sent, which throws
\* inside the async handler (an unhandled rejection).
LocalStream(file, hasPath, exists, hasRange, range) ==
    IF ~hasPath THEN JsonError(400, "false")
    ELSE IF ~exists THEN JsonError(404, "false")
    ELSE
    LET fileSize == Len(file.bytes)
        contentType == ContentTypeOf(file.name)
        r == ParseRange(range, fileSize)
        head == corsHeaders @@ PartialHeaders(r.start, r.end, fileSize,
                                   ChunkSize(r.start, r.end), contentType)
    IN  IF hasRange /\ range # <<>>
        THEN IF ReadStreamThrows(r.start, r.end)
             THEN Response(206, "stream", head, <<>>, "absent", "unhandledRejection")
             ELSE Response(206, "stream", head,
                      ReadStreamBytes(file.bytes, r.start, r.end), "absent", "none")
        ELSE Response(200, "stream",
                 corsHeaders @@ FullHeaders(fileSize, contentType),
                 file.bytes, "absent", "none")

libraryCors ==
    ("Access-Control-Allow-Origin" :> "*")
        @@ ("Access-Control-Allow-Methods" :> "GET, OPTIONS")
        @@ ("Access-Control-Allow-Headers" :> "Range")
        @@ ("Access-Control-Expose-Headers"
                :> "Content-Range, Content-Length, Accept-Ranges")

\* GET /api/library/stream/:filepath. inside is the outcome of the
\* startsWith check of the normalized path; the read stream is created
\* inside the try block, before the head is written.
LibraryStream(file, inside, exists, hasRange, range) ==
    IF ~inside THEN JsonError(403, "absent")
    ELSE IF ~exists THEN JsonError(404, "absent")
    ELSE
    LET fileSize == Len(file.bytes)
        contentType == ContentTypeOf(file.name)
        r == ParseRange(range, fileSize)
    IN  IF hasRange /\ range # <<>>
        THEN IF ReadStreamThrows(r.start, r.end) THEN JsonError(500, "absent")
             ELSE Response(206, "stream",
                      libraryCors @@ PartialHeaders(r.start, r.end, fileSize,
                                         ChunkSize(r.start, r.end), contentType),
                      ReadStreamBytes(file.bytes, r.start, r.end), "absent", "none")
        ELSE Response(200, "stream",
                 libraryCors @@ FullHeaders(fileSize, contentType),
                 file.bytes, "absent", "none")

----------------------------------------------------------------------------
(* The stream handlers of the earlier server file (unnamed/part_002).      *)

\* GET /api/music/:filename: always audio/mpeg, and the 200 response
\* carries no Accept-Ranges header.
MusicStreamV1(file, exists, hasRange, range) ==
    IF ~exists THEN JsonError(404, "absent")
    ELSE
    LET fileSize == Len(file.bytes)
        r == ParseRange(range, fileSize)
    IN  IF hasRange /\ range # <<>>
        THEN IF ReadStreamThrows(r.start, r.end) THEN ExpressError
             ELSE Response(206, "stream",
                      PartialHeaders(r.start, r.end, fileSize,
                          ChunkSize(r.start, r.end), "audio/mpeg"),
                      ReadStreamBytes(file.bytes, r.start, r.end), "absent", "none")
        ELSE Response(200, "stream",
                 ("Content-Length" :> NumToString(fileSize))
                     @@ ("Content-Type" :> "audio/mpeg"),
                 file.bytes, "absent", "none")

\* GET /api/webdav/stream: the same statements as in server/index.js
WebdavStreamV1(file, connected, statOk, hasRange, range) ==
    WebdavStream(file, connected, statOk, hasRange, range)

\* GET /api/gdrive/stream: as in server/index.js, but the content type falls
\* back to the file's mimeType before audio/mpeg
GdriveStreamV1(file, connected, metaOk, sizeKnown, mimeType, hasRange, range) ==
    LET r == GdriveStream(file, connected, metaOk, sizeKnown, hasRange, range)
        known == \E e \in audioMimeTypes : e[1] = ToLowerCase(ExtName(file.name))
    IN  IF r.kind = "stream" /\ ~known /\ mimeType # ""
        THEN [r EXCEPT !.headers = ("Content-Type" :> mimeType) @@ r.headers]
        ELSE r

----------------------------------------------------------------------------
(* The proxy-fetch handlers: the server fetches the download URL itself    *)
(* and relays what the upstream answers.                                   *)

\* Headers.get(name): null for a header the response does not carry
HeadersGet(headers, name) ==
    IF name \in DOMAIN headers THEN headers[name] ELSE Null

\* ProxyRelay that answers 200 whatever the upstream's status
ProxyRelayAlways200(rangeSent, up, contentType) ==
    Response(200, "stream",
        ("Content-Type" :> contentType)
            @@ ("Accept-Ranges" :> "bytes")
            @@ ("Content-Length" :> HeadersGet(up.headers, "content-length")),
        up.body, "absent", "none")

\* the head and body relayed for an upstream response: 206 only when the
\* request carried a Range and the upstream answered 206, otherwise 200
ProxyRelay(rangeSent, up, contentType) ==
    IF rangeSent /\ up.status = 206
    THEN Response(206, "stream",
             ("Content-Range" :> HeadersGet(up.headers, "content-range"))
                 @@ ("Accept-Ranges" :> "bytes")
                 @@ ("Content-Length" :> HeadersGet(up.headers, "content-length"))
                 @@ ("Content-Type" :> contentType),
             up.body, "absent", "none")
    ELSE Response(200, "stream",
             ("Content-Type" :> contentType)
                 @@ ("Accept-Ranges" :> "bytes")
                 @@ ("Content-Length" :> HeadersGet(up.headers, "content-length")),
             up.body, "absent", "none")

\* GET /api/alist/stream: /api/fs/get, then a proxied fetch of the signed
\* raw_url when the answer carries a sign, a redirect to raw_url otherwise
AlistStream(file, connected, getOk, hasRawUrl, hasSign, fetchOk, hasRange, range, up) ==
    IF ~connected THEN JsonError(400, "false")
    ELSE IF ~getOk \/ ~hasRawUrl THEN JsonError(500, "false")
    ELSE IF hasSign
    THEN IF ~fetchOk THEN JsonError(500, "false")
         ELSE ProxyRelay(hasRange /\ range # <<>>, up, ContentTypeOf(file.name))
    ELSE Response(302, "redirect", ("Location" :> "raw_url"), <<>>, "absent", "none")

\* GET /api/quark/stream: the download call, then a proxied fetch of the
\* download_url; the content type is the upstream's, or audio/mpeg
QuarkStream(connected, downloadOk, fetchOk, hasRange, range, up) ==
    IF ~connected THEN JsonError(400, "false")
    ELSE IF ~downloadOk \/ ~fetchOk THEN JsonError(500, "false")
    ELSE ProxyRelay(hasRange /\ range # <<>>, up,
             IF "content-type" \in DOMAIN up.headers /\ up.headers["content-type"] # ""
             THEN up.headers["content-type"]
             ELSE "audio/mpeg")

\* What the upstream of a proxied fetch may answer for a file: the whole
\* file with or without a Content-Length, a refusal, and, only to a request
\* that carries a Range header, any satisfiable part of the file.
Upstreams(file, rangeSent) ==
    LET T == Len(file.bytes)
    IN  { [status |-> 200,
           headers |-> ("content-length" :> NatToString(T))
                           @@ ("content-type" :> "audio/flac"),
           body |-> file.bytes],
          [status |-> 200, headers |-> NoHeaders, body |-> file.bytes],
          [status |-> 403,
           headers |-> ("content-length" :> NatToString(2))
                           @@ ("content-type" :> "text/html"),
           body |-> <<60, 62>>] }
        \cup { [status |-> 206,
                headers |-> ("content-range" :> ContentRangeValue(a, b, T))
                                @@ ("content-length" :> NatToString(b - a + 1))
                                @@ ("content-type" :> "application/octet-stream"),
                body |-> SubSeq(file.bytes, a + 1, b + 1)]
               : <<a, b>> \in {x \in (0..(T - 1)) \X (0..(T - 1)) :
                                  rangeSent /\ x[1] <= x[2]} }

\* the Range headers tried on the proxy handlers, which do not parse them
ProxyRanges ==
    { <<>>, S_bytesEq \o <<"0", "-">>, S_bytesEq \o <<"1", "-", "2">>, S_abc }

----------------------------------------------------------------------------
(* The redirect handlers: the server asks the remote service for a         *)
(* download link and redirects the client to it.                           *)

\* the kinds whose stream handler redirects to a download link
RedirectRegistries ==
    {"onedriveClients", "dropboxClients", "aliyunClients", "baiduClients"}

\* the Location of the redirect: the link of the answer, String(undefined)
\* when the answer carries none; the Baidu handler appends the access token
RedirectLocation(registry, hasLink) ==
    IF registry = "baiduClients"
    THEN (IF hasLink THEN "link&access_token=token"
                     ELSE "undefined&access_token=token")
    ELSE (IF hasLink THEN "link" ELSE "undefined")

\* RedirectStream that answers a request with a Range header as a stream
\* handler does, with 206 and a Content-Range
RedirectStreamRanged(registry, connected, fetchOk, hasLink, hasRange, range) ==
    IF ~connected THEN JsonError(400, "false")
    ELSE IF ~fetchOk THEN JsonError(500, "false")
    ELSE IF hasRange /\ range # <<>>
    THEN Response(206, "stream",
             ("Content-Range" :> range) @@ ("Accept-Ranges" :> "bytes"),
             <<>>, "absent", "none")
    ELSE Response(302, "redirect",
             ("Location" :> RedirectLocation(registry, hasLink)),
             <<>>, "absent", "none")

\* GET /api/{onedrive,dropbox,aliyun,baidu}/stream: the lookup, the call
\* for the download link, res.redirect to it. The handlers do not read
\* req.headers.range. The OneDrive handler answers 400 when the metadata
\* carries no link, the others redirect to what they were given.
RedirectStream(registry, connected, fetchOk, hasLink, hasRange, range) ==
    IF ~connected THEN JsonError(400, "false")
    ELSE IF ~fetchOk THEN JsonError(500, "false")
    ELSE IF ~hasLink /\ registry = "onedriveClients"
    THEN JsonError(400, "false")
    ELSE Response(302, "redirect",
             ("Location" :> RedirectLocation(registry, hasLink)),
             <<>>, "absent", "none")

----------------------------------------------------------------------------
(* Stream requests: one action per stream handler. A handler answers the   *)
(* request it is given; ResponseSent ends the exchange.                    *)

\* the value of a variable or of Map.get for a missing key
Undefined == <<"undefined">>

\* What a handler answered: the status, the success field of a JSON body
\* ("absent" for a body without it), the clientId it carries, the error it
\* reports, and whether the handler called the remote service.
Reply(op, status, success, clientId, error, remote) ==
    [op |-> op, status |-> status, success |-> success,
     clientId |-> clientId, error |-> error, remote |-> remote]

NoReply == Reply("none", 0, "absent", Undefined, "none", FALSE)

\* res.status(400).json({ success: false, error: '... not connected' })
NotConnected(op) == Reply(op, 400, "false", Undefined, "notConnected", FALSE)

\* the catch block: res.status(500).json({ success: false, error: error.message })
Caught(op, remote) == Reply(op, 500, "false", Undefined, "message", remote)

NoRequest == [handler |-> "none"]
NoResponse == Response(0, "none", NoHeaders, <<>>, "absent", "none")

\* a request: the handler it is routed to, the file it names, its Range
\* header (hasRange: whether the header is there at all) and what the
\* handler finds on its way (inputs)
Request(handler, file, hasRange, range, inputs) ==
    [handler |-> handler, file |-> file, hasRange |-> hasRange,
     range |-> range, inputs |-> inputs]

\* a request carries a Range header value or none
RangeChoices(ranges) ==
    {<<TRUE, r>> : r \in ranges} \cup {<<FALSE, <<>>>>}

GetMusic ==
    /\ req = NoRequest
    /\ \E f \in Files, exists \in BOOLEAN, h \in RangeChoices(RangeHeaders) :
        /\ req' = Request("music", f, h[1], h[2], [exists |-> exists])
        /\ res' = MusicStream(f, exists, h[1], h[2])
    /\ UNCHANGED <<now, createClient, clients, pending, issued, disconnected,
                   out, serverUp, streams, loopVars, playerVars, scanVars>>

GetWebdavStream ==
    /\ req = NoRequest
    /\ \E f \in Files, connected \in BOOLEAN, statOk \in BOOLEAN,
          h \in RangeChoices(RangeHeaders) :
        /\ req' = Request("webdav", f, h[1], h[2],
                      [connected |-> connected, statOk |-> statOk])
        /\ res' = WebdavStream(f, connected, statOk, h[1], h[2])
    /\ UNCHANGED <<now, createClient, clients, pending, issued, disconnected,
                   out, serverUp, streams, loopVars, playerVars, scanVars>>

GetGdriveStream ==
    /\ req = NoRequest
    /\ \E f \in Files, connected \in BOOLEAN, metaOk \in BOOLEAN,
          sizeKnown \in BOOLEAN, h \in RangeChoices(RangeHeaders) :
        /\ req' = Request("gdrive", f, h[1], h[2],
                      [connected |-> connected, metaOk |-> metaOk,
                       sizeKnown |-> sizeKnown])
        /\ res' = GdriveStream(f, connected, metaOk, sizeKnown, h[1], h[2])
    /\ UNCHANGED <<now, createClient, clients, pending, issued, disconnected,
                   out, serverUp, streams, loopVars, playerVars, scanVars>>

GetLocalStream ==
    /\ req = NoRequest
    /\ \E f \in Files, hasPath \in BOOLEAN, exists \in BOOLEAN,
          h \in RangeChoices(RangeHeaders) :
        /\ req' = Request("local", f, h[1], h[2],
                      [hasPath |-> hasPath, exists |-> exists])
        /\ res' = LocalStream(f, hasPath, exists, h[1], h[2])
    /\ UNCHANGED <<now, createClient, clients, pending, issued, disconnected,
                   out, serverUp, streams, loopVars, playerVars, scanVars>>

GetLibraryStream ==
    /\ req = NoRequest
    /\ \E f \in Files, inside \in BOOLEAN, exists \in BOOLEAN,
          h \in RangeChoices(RangeHeaders) :
        /\ req' = Request("library", f, h[1], h[2],
                      [inside |-> inside, exists |-> exists])
        /\ res' = LibraryStream(f, inside, exists, h[1], h[2])
    /\ UNCHANGED <<now, createClient, clients, pending, issued, disconnected,
                   out, serverUp, streams, loopVars, playerVars, scanVars>>

GetMusicV1 ==
    /\ req = NoRequest
    /\ \E f \in Files, exists \in BOOLEAN, h \in RangeChoices(RangeHeaders) :
        /\ req' = Request("musicV1", f, h[1], h[2], [exists |-> exists])
        /\ res' = MusicStreamV1(f, exists, h[1], h[2])
    /\ UNCHANGED <<now, createClient, clients, pending, issued, disconnected,
                   out, serverUp, streams, loopVars, playerVars, scanVars>>

GetWebdavStreamV1 ==
    /\ req = NoRequest
    /\ \E f \in Files, connected \in BOOLEAN, statOk \in BOOLEAN,
          h \in RangeChoices(RangeHeaders) :
        /\ req' = Request("webdavV1", f, h[1], h[2],
                      [connected |-> connected, statOk |-> statOk])
        /\ res' = WebdavStreamV1(f, connected, statOk, h[1], h[2])
    /\ UNCHANGED <<now, createClient, clients, pending, issued, disconnected,
                   out, serverUp, streams, loopVars, playerVars, scanVars>>

GetGdriveStreamV1 ==
    /\ req = NoRequest
    /\ \E f \in Files, connected \in BOOLEAN, metaOk \in BOOLEAN,
          sizeKnown \in BOOLEAN, mimeType \in {"", "audio/x-m4a"},
          h \in RangeChoices(RangeHeaders) :
        /\ req' = Request("gdriveV1", f, h[1], h[2],
                      [connected |-> connected, metaOk |-> metaOk,
                       sizeKnown |-> sizeKnown, mimeType |-> mimeType])
        /\ res' = GdriveStreamV1(f, connected, metaOk, sizeKnown, mimeType, h[1], h[2])
    /\ UNCHANGED <<now, createClient, clients, pending, issued, disconnected,
                   out, serverUp, streams, loopVars, playerVars, scanVars>>

GetAlistStream ==
    /\ req = NoRequest
    /\ \E f \in Files, connected \in BOOLEAN, getOk \in BOOLEAN,
          hasRawUrl \in BOOLEAN, hasSign \in BOOLEAN, fetchOk \in BOOLEAN,
          h \in RangeChoices(ProxyRanges) :
        \E up \in Upstreams(f, h[1] /\ h[2] # <<>>) :
            /\ req' = Request("alist", f, h[1], h[2],
                          [connected |-> connected, getOk |-> getOk,
                           hasRawUrl |-> hasRawUrl, hasSign |-> hasSign,
                           fetchOk |-> fetchOk, up |-> up])
            /\ res' = AlistStream(f, connected, getOk, hasRawUrl, hasSign,
                          fetchOk, h[1], h[2], up)
    /\ UNCHANGED <<now, createClient, clients, pending, issued, disconnected,
                   out, serverUp, streams, loopVars, playerVars, scanVars>>

GetQuarkStream ==
    /\ req = NoRequest
    /\ \E f \in Files, connected \in BOOLEAN, downloadOk \in BOOLEAN,
          fetchOk \in BOOLEAN, h \in RangeChoices(ProxyRanges) :
        \E up \in Upstreams(f, h[1] /\ h[2] # <<>>) :
            /\ req' = Request("quark", f, h[1], h[2],
                          [connected |-> connected, downloadOk |-> downloadOk,
                           fetchOk |-> fetchOk, up |-> up])
            /\ res' = QuarkStream(connected, downloadOk, fetchOk, h[1], h[2], up)
    /\ UNCHANGED <<now, createClient, clients, pending, issued, disconnected,
                   out, serverUp, streams, loopVars, playerVars, scanVars>>

GetRedirectStream ==
    /\ req = NoRequest
    /\ \E registry \in RedirectRegistries, f \in Files, connected \in BOOLEAN,
          fetchOk \in BOOLEAN, hasLink \in BOOLEAN,
          h \in RangeChoices(RangeHeaders) :
        /\ req' = Request(registry, f, h[1], h[2],
                      [connected |-> connected, fetchOk |-> fetchOk,
                       hasLink |-> hasLink])
        /\ res' = RedirectStream(registry, connected, fetchOk, hasLink, h[1], h[2])
    /\ UNCHANGED <<now, createClient, clients, pending, issued, disconnected,
                   out, serverUp, streams, loopVars, playerVars, scanVars>>

\* the answer has been sent; the next request is independent of it
ResponseSent ==
    /\ req # NoRequest \/ out # NoReply
    /\ req' = NoRequest
    /\ res' = NoResponse
    /\ out' = NoReply
    /\ UNCHANGED <<now, createClient, clients, pending, issued, disconnected,
                   serverUp, streams, loopVars, playerVars, scanVars>>

InitRange ==
    /\ req = NoRequest
    /\ res = NoResponse

NextRange ==
    \/ GetMusic
    \/ GetWebdavStream
    \/ GetGdriveStream
    \/ GetLocalStream
    \/ GetLibraryStream
    \/ GetMusicV1
    \/ GetWebdavStreamV1
    \/ GetGdriveStreamV1
    \/ GetAlistStream
    \/ GetQuarkStream
    \/ GetRedirectStream
    \/ ResponseSent

----------------------------------------------------------------------------
(* The session registries: one Map per backend kind, clientId -> session.  *)

S_webdav == <<"w", "e", "b", "d", "a", "v">>
S_gdrive == <<"g", "d", "r", "i", "v", "e">>
S_onedrive == <<"o", "n", "e", "d", "r", "i", "v", "e">>
S_dropbox == <<"d", "r", "o", "p", "b", "o", "x">>
S_aliyun == <<"a", "l", "i", "y", "u", "n">>
S_baidu == <<"b", "a", "i", "d", "u">>
S_alist == <<"a", "l", "i", "s", "t">>
S_quark == <<"q", "u", "a", "r", "k">>

\* `${prefix}-${Date.now()}`
ClientId(prefix, t) == prefix \o <<"-">> \o NumToString(t)

\* the earlier server file: `${url}-${username}`
ClientIdV1(url, username) == url \o <<"-">> \o username

\* the Maps of server/index.js, and webdavClients of the earlier server file
Registries ==
    {"webdavClients", "googleDriveClients", "onedriveClients",
     "dropboxClients", "aliyunClients", "baiduClients", "alistClients",
     "quarkClients", "webdavClientsV1"}

\* the kinds whose session is created by an OAuth callback
OAuthRegistries ==
    {"googleDriveClients", "onedriveClients", "dropboxClients", "baiduClients"}

\* one prefix for the clientIds of every registry
PrefixShared(registry) == S_webdav

\* the prefix of the clientIds of a registry
Prefix(registry) ==
    CASE registry = "googleDriveClients" -> S_gdrive
      [] registry = "onedriveClients" -> S_onedrive
      [] registry = "dropboxClients" -> S_dropbox
      [] registry = "baiduClients" -> S_baidu
      [] registry = "aliyunClients" -> S_aliyun
      [] registry = "alistClients" -> S_alist
      [] registry = "quarkClients" -> S_quark
      [] OTHER -> S_webdav

\* new Map()
NewMap == [k \in {} |-> Undefined]
EmptyRegistries == [r \in Registries |-> NewMap]

\* Map.get(k) is not undefined; Map.set; Map.delete
MapHas(m, k) == k \in DOMAIN m
MapSet(m, k, v) == (k :> v) @@ m
MapDelete(m, k) == [x \in DOMAIN m \ {k} |-> m[x]]

\* user names, e-mail addresses and URLs of the requests
Users == {<<"a">>, <<"b">>}
Names == {<<"n">>}
Urls == {<<"u">>}
AlistUrls == {<<"u">>, <<"u", "/">>}
\* a clientId no connect ever computes
Bogus == <<"x">>

\* url.replace(/\/+$/, '')
RECURSIVE StripTrailingSlashes(_)
StripTrailingSlashes(s) ==
    IF s # <<>> /\ s[Len(s)] = "/"
    THEN StripTrailingSlashes(SubSeq(s, 1, Len(s) - 1))
    ELSE s

\* the value of createClient once import('webdav') has settled
Loaded == <<"webdav.createClient">>

\* the sequence without its i-th element
RemoveAt(s, i) == SubSeq(s, 1, i - 1) \o SubSeq(s, i + 1, Len(s))

\* the connects the model counts: the distinct clientIds issued and the
\* connects waiting for their probe
Connects == Cardinality(issued) + Len(pending)

\* clientIds a request may name: those some registry holds, those of the
\* connects in flight, those a disconnect named, and one never computed
RequestIds ==
    UNION {DOMAIN clients[r] : r \in Registries}
        \cup {pending[i].clientId : i \in 1..Len(pending)}
        \cup {d[2] : d \in disconnected}
        \cup {Bogus}

\* the clientIds computed for a registry
KnownIds(registry) ==
    DOMAIN clients[registry]
        \cup {pending[i].clientId : i \in {j \in 1..Len(pending) :
                                               pending[j].registry = registry}}
        \cup {d[2] : d \in {e \in disconnected : e[1] = registry}}

\* the process ends: its memory, the registries with it, is gone
ProcessExit ==
    /\ serverUp' = FALSE
    /\ clients' = EmptyRegistries
    /\ pending' = <<>>

\* Date.now() moves on
Tick ==
    /\ serverUp
    /\ out = NoReply
    /\ now < MaxClock
    /\ now' = now + 1
    /\ UNCHANGED <<createClient, clients, pending, issued, disconnected, out,
                   serverUp, rangeVars, loopVars, playerVars, scanVars, streams>>

\* import('webdav') settles
loadWebDAV ==
    /\ serverUp
    /\ out = NoReply
    /\ createClient = Null
    /\ createClient' = Loaded
    /\ UNCHANGED <<now, clients, pending, issued, disconnected, out,
                   serverUp, rangeVars, loopVars, playerVars, scanVars, streams>>

\* POST /api/webdav/connect up to the await of the probe: the clientId is
\* computed from Date.now() before the probe is sent
WebdavConnect(url, username) ==
    /\ serverUp
    /\ out = NoReply
    /\ IF createClient = Null
       THEN /\ out' = Caught("connect", FALSE)
            /\ UNCHANGED pending
       ELSE /\ Connects < MaxConnects
            /\ pending' = Append(pending,
                   [registry |-> "webdavClients",
                    clientId |-> ClientId(S_webdav, now),
                    session |-> [url |-> url, username |-> username]])
            /\ UNCHANGED out
    /\ UNCHANGED <<now, createClient, clients, issued, disconnected,
                   serverUp, rangeVars, loopVars, playerVars, scanVars, streams>>

\* POST /api/webdav/connect of the earlier server file, up to the await
WebdavConnectV1(url, username) ==
    /\ serverUp
    /\ out = NoReply
    /\ IF createClient = Null
       THEN /\ out' = Caught("connect", FALSE)
            /\ UNCHANGED pending
       ELSE /\ Connects < MaxConnects
            /\ pending' = Append(pending,
                   [registry |-> "webdavClientsV1",
                    clientId |-> ClientIdV1(url, username),
                    session |-> [url |-> url, username |-> username]])
            /\ UNCHANGED out
    /\ UNCHANGED <<now, createClient, clients, issued, disconnected,
                   serverUp, rangeVars, loopVars, playerVars, scanVars, streams>>

\* the probe client.getDirectoryContents('/') of the i-th waiting connect
\* settles: the session is stored and the clientId returned, or the catch
\* block answers
WebdavConnectSettled(i, probeOk) ==
    /\ serverUp
    /\ out = NoReply
    /\ i \in 1..Len(pending)
    /\ LET p == pending[i]
       IN  IF probeOk
           THEN /\ clients' = [clients EXCEPT ![p.registry] =
                                  MapSet(@, p.clientId, p.session)]
                /\ issued' = issued \cup {p.clientId}
                /\ out' = Reply("connect", 200, "true", p.clientId, "none", TRUE)
           ELSE /\ out' = Caught("connect", TRUE)
                /\ UNCHANGED <<clients, issued>>
    /\ pending' = RemoveAt(pending, i)
    /\ UNCHANGED <<now, createClient, disconnected, serverUp, rangeVars, loopVars, playerVars, scanVars, streams>>

\* a connect handler from its last await on: it stores the session under a
\* clientId made of Date.now() and returns it
StoreSession(registry, session) ==
    LET clientId == ClientId(Prefix(registry), now)
    IN  /\ Connects < MaxConnects
        /\ clients' = [clients EXCEPT ![registry] = MapSet(@, clientId, session)]
        /\ issued' = issued \cup {clientId}
        /\ out' = Reply("connect", 200, "true", clientId, "none", TRUE)

\* AliyunConnect that stores the session before it looks at data.code
AliyunConnectStoresFirst(codeSet, userName) ==
    /\ serverUp
    /\ out = NoReply
    /\ StoreSession("aliyunClients", [userName |-> userName])
    /\ UNCHANGED <<now, createClient, pending, disconnected, serverUp,
                   rangeVars, loopVars, playerVars, scanVars, streams>>

\* POST /api/aliyun/connect: the token call answers with data.code set
\* (codeSet) or with the tokens of the account
AliyunConnect(codeSet, userName) ==
    /\ serverUp
    /\ out = NoReply
    /\ IF codeSet
       THEN /\ out' = Caught("connect", TRUE)
            /\ UNCHANGED <<clients, issued>>
       ELSE StoreSession("aliyunClients", [userName |-> userName])
    /\ UNCHANGED <<now, createClient, pending, disconnected, serverUp,
                   rangeVars, loopVars, playerVars, scanVars, streams>>

\* POST /api/alist/connect: the login when username and password are
\* given, then the probe /api/fs/list of the root
AlistConnect(url, hasCredentials, loginCode200, loginHasToken, probeCode200) ==
    LET baseUrl == StripTrailingSlashes(url)
        token == IF hasCredentials /\ loginCode200 /\ loginHasToken
                 THEN "token" ELSE ""
    IN  /\ serverUp
        /\ out = NoReply
        /\ IF (hasCredentials /\ ~loginCode200) \/ ~probeCode200
           THEN /\ out' = Caught("connect", TRUE)
                /\ UNCHANGED <<clients, issued>>
           ELSE StoreSession("alistClients", [baseUrl |-> baseUrl, token |-> token])
        /\ UNCHANGED <<now, createClient, pending, disconnected, serverUp,
                       rangeVars, loopVars, playerVars, scanVars, streams>>

\* POST /api/quark/connect: a missing cookie throws before any call; then
\* the probe of the root folder
QuarkConnect(cookie, probeStatus200) ==
    /\ serverUp
    /\ out = NoReply
    /\ IF cookie = ""
       THEN /\ out' = Caught("connect", FALSE)
            /\ UNCHANGED <<clients, issued>>
       ELSE IF ~probeStatus200
       THEN /\ out' = Caught("connect", TRUE)
            /\ UNCHANGED <<clients, issued>>
       ELSE StoreSession("quarkClients", [cookie |-> cookie])
    /\ UNCHANGED <<now, createClient, pending, disconnected, serverUp,
                   rangeVars, loopVars, playerVars, scanVars, streams>>

\* GET /api/{gdrive,onedrive,dropbox,baidu}/callback: the code is exchanged
\* for tokens and the user is asked for; only the Google Drive handler
\* fails when the user call fails, the others store an undefined name.
\* The answers are text and HTML pages, not JSON.
OAuthCallback(registry, hasCode, tokenOk, userOk, email) ==
    /\ serverUp
    /\ out = NoReply
    /\ registry \in OAuthRegistries
    /\ IF ~hasCode
       THEN /\ out' = Reply("callback", 400, "absent", Undefined, "text", FALSE)
            /\ UNCHANGED <<clients, issued>>
       ELSE IF ~tokenOk \/ (registry = "googleDriveClients" /\ ~userOk)
       THEN /\ out' = Reply("callback", 500, "absent", Undefined, "text", TRUE)
            /\ UNCHANGED <<clients, issued>>
       ELSE LET clientId == ClientId(Prefix(registry), now)
            IN  /\ Connects < MaxConnects
                /\ clients' = [clients EXCEPT ![registry] =
                       MapSet(@, clientId,
                           [email |-> IF userOk THEN email ELSE Undefined])]
                /\ issued' = issued \cup {clientId}
                /\ out' = Reply("callback", 200, "absent", clientId, "none", TRUE)
    /\ UNCHANGED <<now, createClient, pending, disconnected, serverUp,
                   rangeVars, loopVars, playerVars, scanVars, streams>>

\* GET /api/{kind}/list answered in the current state: the lookup, then
\* the listing call to the remote service
ListReply(registry, clientId, remoteOk) ==
    IF ~MapHas(clients[registry], clientId)
    THEN NotConnected("list")
    ELSE IF remoteOk
    THEN Reply("list", 200, "true", Undefined, "none", TRUE)
    ELSE Caught("list", TRUE)

\* the file and the Range headers of the stream requests of this part
SessionFile == [name |-> <<"a", ".", "m", "p", "3">>, bytes |-> Content(1)]
SessionRanges == {S_bytesEq \o <<"0", "-">>, S_bytesEq \o <<"3", "-">>}

\* the upstream of the proxied fetches of this part answers with the file
SessionUpstream ==
    [status |-> 200,
     headers |-> ("content-length" :> NatToString(Len(SessionFile.bytes))),
     body |-> SessionFile.bytes]

\* GET /api/{kind}/stream answered in the current state, as the response
\* of the kind's handler
StreamResponse(registry, clientId, ok, hasRange, range) ==
    LET connected == MapHas(clients[registry], clientId)
    IN  CASE registry \in {"webdavClients", "webdavClientsV1"} ->
                WebdavStream(SessionFile, connected, ok, hasRange, range)
          [] registry = "googleDriveClients" ->
                GdriveStream(SessionFile, connected, ok, TRUE, hasRange, range)
          [] registry = "alistClients" ->
                AlistStream(SessionFile, connected, ok, TRUE, TRUE, TRUE,
                    hasRange, range, SessionUpstream)
          [] registry = "quarkClients" ->
                QuarkStream(connected, ok, TRUE, hasRange, range, SessionUpstream)
          [] OTHER -> RedirectStream(registry, connected, ok, TRUE, hasRange, range)

\* the same answer as the handler's Reply
StreamReply(registry, clientId, ok, hasRange, range) ==
    LET r == StreamResponse(registry, clientId, ok, hasRange, range)
        connected == MapHas(clients[registry], clientId)
    IN  Reply("stream", r.status, r.success, Undefined,
            IF ~connected THEN "notConnected"
            ELSE IF r.kind = "json" THEN "message" ELSE "none",
            connected)

\* an error nothing handles ends the process: a rejection of the async
\* handler, or an 'error' event of a stream without listener
Fatal(r) == r.fault # "none"

List(registry, clientId, remoteOk) ==
    /\ serverUp
    /\ out = NoReply
    /\ out' = ListReply(registry, clientId, remoteOk)
    /\ UNCHANGED <<now, createClient, clients, pending, issued, disconnected,
                   serverUp, rangeVars, loopVars, playerVars, scanVars, streams>>

Stream(registry, clientId, ok, hasRange, range) ==
    /\ serverUp
    /\ out = NoReply
    /\ out' = StreamReply(registry, clientId, ok, hasRange, range)
    /\ IF Fatal(StreamResponse(registry, clientId, ok, hasRange, range))
       THEN ProcessExit
       ELSE UNCHANGED <<clients, pending, serverUp>>
    /\ UNCHANGED <<now, createClient, issued, disconnected, rangeVars, loopVars, playerVars, scanVars, streams>>

\* GET /api/local/stream, which needs no session
LocalStreamRequest(hasRange, range) ==
    LET r == LocalStream(SessionFile, TRUE, TRUE, hasRange, range)
    IN  /\ serverUp
        /\ out = NoReply
        /\ out' = Reply("stream", r.status, r.success, Undefined, "none", FALSE)
        /\ IF Fatal(r)
           THEN ProcessExit
           ELSE UNCHANGED <<clients, pending, serverUp>>
        /\ UNCHANGED <<now, createClient, issued, disconnected, rangeVars, loopVars, playerVars, scanVars, streams>>

\* req.body as express.json() hands it to a handler: {} when the request
\* carries no JSON body, otherwise the parsed object
EmptyBody == [k \in {} |-> Undefined]

\* const { clientId } = req.body
BodyClientId(body) ==
    IF "clientId" \in DOMAIN body THEN body["clientId"] ELSE Undefined

\* the bodies of the disconnect requests to a registry: no body, an object
\* without clientId, clientId null, and a clientId computed for the
\* registry or never computed
DisconnectBodies(registry) ==
    {EmptyBody, [other |-> Bogus], [clientId |-> Null]}
        \cup {[clientId |-> id] : id \in KnownIds(registry) \cup {Bogus}}

\* Disconnect with Map.clear() in the place of Map.delete(clientId)
DisconnectClears(registry, body) ==
    LET clientId == BodyClientId(body)
    IN  /\ serverUp
        /\ out = NoReply
        /\ (clientId \notin issued \/ <<registry, clientId>> \in disconnected
                \/ Cardinality(disconnected) < MaxDisconnects)
        /\ clients' = [clients EXCEPT ![registry] = NewMap]
        /\ disconnected' = IF clientId \in issued
                           THEN disconnected \cup {<<registry, clientId>>}
                           ELSE disconnected
        /\ out' = Reply("disconnect", 200, "true", Undefined, "none", FALSE)
        /\ UNCHANGED <<now, createClient, pending, issued, serverUp, rangeVars, loopVars, playerVars, scanVars, streams>>

\* POST /api/{kind}/disconnect. The history keeps the pairs whose clientId
\* a connect had returned before.
Disconnect(registry, body) ==
    LET clientId == BodyClientId(body)
    IN  /\ serverUp
        /\ out = NoReply
        /\ (clientId \notin issued \/ <<registry, clientId>> \in disconnected
                \/ Cardinality(disconnected) < MaxDisconnects)
        /\ clients' = [clients EXCEPT ![registry] = MapDelete(@, clientId)]
        /\ disconnected' = IF clientId \in issued
                           THEN disconnected \cup {<<registry, clientId>>}
                           ELSE disconnected
        /\ out' = Reply("disconnect", 200, "true", Undefined, "none", FALSE)
        /\ UNCHANGED <<now, createClient, pending, issued, serverUp, rangeVars, loopVars, playerVars, scanVars, streams>>

Connect ==
    \/ \E url \in Urls, username \in Users : WebdavConnect(url, username)
    \/ \E url \in Urls, username \in Users : WebdavConnectV1(url, username)
    \/ \E i \in 1..MaxConnects, probeOk \in BOOLEAN : WebdavConnectSettled(i, probeOk)
    \/ \E codeSet \in BOOLEAN, userName \in Names : AliyunConnect(codeSet, userName)
    \/ \E url \in AlistUrls, hasCredentials \in BOOLEAN, loginCode200 \in BOOLEAN,
          loginHasToken \in BOOLEAN, probeCode200 \in BOOLEAN :
            AlistConnect(url, hasCredentials, loginCode200, loginHasToken, probeCode200)
    \/ \E cookie \in {"", "cookie"}, probeStatus200 \in BOOLEAN :
            QuarkConnect(cookie, probeStatus200)

Callback ==
    \E registry \in OAuthRegistries, hasCode \in BOOLEAN, tokenOk \in BOOLEAN,
       userOk \in BOOLEAN, email \in Names :
        OAuthCallback(registry, hasCode, tokenOk, userOk, email)

ListRequest ==
    \E registry \in Registries, clientId \in RequestIds, remoteOk \in BOOLEAN :
        List(registry, clientId, remoteOk)

StreamRequest ==
    \/ \E registry \in Registries, clientId \in RequestIds, ok \in BOOLEAN,
          h \in RangeChoices(SessionRanges) :
            Stream(registry, clientId, ok, h[1], h[2])
    \/ \E h \in RangeChoices(SessionRanges) : LocalStreamRequest(h[1], h[2])

DisconnectRequest ==
    \E registry \in Registries :
        \E body \in DisconnectBodies(registry) :
            Disconnect(registry, body)

InitSessions ==
    /\ now = 0
    /\ createClient = Null
    /\ clients = EmptyRegistries
    /\ pending = <<>>
    /\ issued = {}
    /\ disconnected = {}
    /\ out = NoReply
    /\ serverUp = TRUE

NextSessions ==
    \/ Tick
    \/ loadWebDAV
    \/ Connect
    \/ Callback
    \/ ListRequest
    \/ StreamRequest
    \/ DisconnectRequest
    \/ ResponseSent

----------------------------------------------------------------------------
(* The life of a piped stream response: source.pipe(res) after the head    *)
(* has been written.                                                       *)

\* the handlers that pipe a source into the response
PipeHandlers == {"music", "local", "library", "webdav", "gdrive", "alist", "quark"}

\* a slot without stream
Idle ==
    [handler |-> "none", left |-> 0, source |-> "none", released |-> TRUE,
     piped |-> FALSE, response |-> "none"]

\* What an 'error' event of the piped source meets. The library handler
\* registers a listener (which only answers while the head is unsent); a
\* file stream or a Readable.fromWeb stream without listener throws the
\* error; the streams of the WebDAV and Google Drive clients throw it or
\* close without an event, depending on the client library.
SourceErrorOutcomes(handler) ==
    CASE handler = "library" -> {"listener"}
      [] handler \in {"webdav", "gdrive"} -> {"uncaught", "silent"}
      [] OTHER -> {"uncaught"}

\* the handler has written the head and piped the source
PipeStart(i, handler, chunks) ==
    /\ serverUp
    /\ streams[i] = Idle
    /\ streams' = [streams EXCEPT ![i] =
           [handler |-> handler, left |-> chunks, source |-> "open",
            released |-> FALSE, piped |-> TRUE, response |-> "streaming"]]
    /\ UNCHANGED <<serverUp, clients, pending, now, createClient, issued,
                   disconnected, out, rangeVars, loopVars, playerVars, scanVars>>

\* pipe: a chunk read from the source is written to the response
PipeChunk(i) ==
    /\ serverUp
    /\ streams[i].piped
    /\ streams[i].source = "open"
    /\ streams[i].left > 0
    /\ streams' = [streams EXCEPT ![i].left = @ - 1]
    /\ UNCHANGED <<serverUp, clients, pending, now, createClient, issued,
                   disconnected, out, rangeVars, loopVars, playerVars, scanVars>>

\* pipe: the source ends, is closed, and the response is ended
PipeEnd(i) ==
    /\ serverUp
    /\ streams[i].piped
    /\ streams[i].source = "open"
    /\ streams[i].left = 0
    /\ streams' = [streams EXCEPT ![i].source = "ended", ![i].released = TRUE,
                                  ![i].piped = FALSE, ![i].response = "ended"]
    /\ UNCHANGED <<serverUp, clients, pending, now, createClient, issued,
                   disconnected, out, rangeVars, loopVars, playerVars, scanVars>>

\* the source fails. pipe does not end the response for it. Without a
\* listener the error is thrown and the process ends, which closes every
\* connection; otherwise the response stays as it is.
SourceError(i, outcome) ==
    /\ serverUp
    /\ streams[i].source = "open"
    /\ outcome \in SourceErrorOutcomes(streams[i].handler)
    /\ IF outcome = "uncaught"
       THEN /\ ProcessExit
            /\ streams' = [j \in DOMAIN streams |->
                   IF streams[j] = Idle THEN Idle
                   ELSE [streams[j] EXCEPT
                            !.source = IF j = i THEN "errored" ELSE @,
                            !.released = TRUE,
                            !.piped = FALSE,
                            !.response = IF @ = "streaming" THEN "aborted" ELSE @]]
       ELSE /\ streams' = [streams EXCEPT ![i].source = "errored",
                                          ![i].released = TRUE,
                                          ![i].piped = FALSE]
            /\ UNCHANGED <<serverUp, clients, pending>>
    /\ UNCHANGED <<now, createClient, issued, disconnected, out, rangeVars, loopVars, playerVars, scanVars>>

\* the client closes the connection: the response emits 'close', on which
\* pipe unpipes and pauses the source; no handler listens for it
ClientClose(i) ==
    /\ serverUp
    /\ streams[i].response = "streaming"
    /\ streams' = [streams EXCEPT ![i].response = "closed", ![i].piped = FALSE]
    /\ UNCHANGED <<serverUp, clients, pending, now, createClient, issued,
                   disconnected, out, rangeVars, loopVars, playerVars, scanVars>>

InitStreams == streams = [i \in 1..MaxStreams |-> Idle]

\* a registry holding one session
OneSession ==
    [EmptyRegistries EXCEPT !["quarkClients"] =
        MapSet(@, ClientId(S_quark, 0), [cookie |-> "cookie"])]

NextPipe ==
    \/ \E i \in 1..MaxStreams, handler \in PipeHandlers, chunks \in 0..MaxChunks :
            PipeStart(i, handler, chunks)
    \/ \E i \in 1..MaxStreams : PipeChunk(i)
    \/ \E i \in 1..MaxStreams : PipeEnd(i)
    \/ \E i \in 1..MaxStreams, outcome \in {"listener", "uncaught", "silent"} :
            SourceError(i, outcome)
    \/ \E i \in 1..MaxStreams : ClientClose(i)

----------------------------------------------------------------------------
(* Listings: the list handlers of the cloud kinds, the local scan and the  *)
(* music library.                                                          *)

audioExtensions ==
    << <<".", "m", "p", "3">>, <<".", "w", "a", "v">>,
       <<".", "f", "l", "a", "c">>, <<".", "o", "g", "g">>,
       <<".", "m", "4", "a">>, <<".", "a", "a", "c">>,
       <<".", "w", "m", "a">> >>

\* String.prototype.endsWith
EndsWith(s, suffix) ==
    Len(suffix) <= Len(s) /\ SubSeq(s, Len(s) - Len(suffix) + 1, Len(s)) = suffix

\* audioExtensions.some(ext => name.toLowerCase().endsWith(ext))
SomeAudioExtension(name) ==
    \E k \in 1..Len(audioExtensions) :
        EndsWith(ToLowerCase(name), audioExtensions[k])

\* audioExtensions.includes(path.extname(name).toLowerCase())
IncludesAudioExtension(name) ==
    \E k \in 1..Len(audioExtensions) :
        audioExtensions[k] = ToLowerCase(ExtName(name))

\* a && b for a boolean a
JsAnd(a, b) == IF a THEN b ELSE a

ListHandlers ==
    {"webdavList", "gdriveList", "onedriveList", "dropboxList", "aliyunList",
     "baiduList", "alistList", "quarkList"}

\* The handler dereferences a field of the entry that an entry may lack
\* (ok = FALSE): the name of a file, for Google Drive the name of every
\* entry, for Baidu the fs_id of every entry.
EntryThrows(handler, e) ==
    ~e.ok /\ (~e.dir \/ handler \in {"gdriveList", "baiduList"})

\* ListItem that leaves the type of the entry out of isAudio
ListItemByNameOnly(handler, e) ==
    [name |-> e.name,
     type |-> IF e.dir THEN "directory" ELSE "file",
     isAudio |-> SomeAudioExtension(e.name)]

\* the item a list handler makes of an entry of the remote listing
ListItem(handler, e) ==
    [name |-> e.name,
     type |-> IF e.dir THEN "directory" ELSE "file",
     isAudio |-> IF handler = "quarkList"
                 THEN JsAnd(~e.dir, SomeAudioExtension(e.name))
                 ELSE ~e.dir /\ SomeAudioExtension(e.name)]

\* the answer of a list handler
ListResponse(status, success, items) ==
    [status |-> status, kind |-> "json", success |-> success, items |-> items]

\* GET /api/{kind}/list: the lookup, the listing call, then the entries
\* mapped to items in the order the remote service delivered them
CloudList(handler, connected, remoteOk, entries) ==
    IF ~connected THEN ListResponse(400, "false", <<>>)
    ELSE IF ~remoteOk THEN ListResponse(500, "false", <<>>)
    ELSE IF \E i \in 1..Len(entries) : EntryThrows(handler, entries[i])
    THEN ListResponse(500, "false", <<>>)
    ELSE ListResponse(200, "true",
             [i \in 1..Len(entries) |-> ListItem(handler, entries[i])])

\* names of the entries of a listing
EntryNames ==
    { <<"a", ".", "m", "p", "3">>,
      <<"B", ".", "F", "L", "A", "C">>,
      <<"c", ".", "t", "x", "t">> }

\* the entries a remote service delivers for a folder
RemoteEntries ==
    {[name |-> n, dir |-> d, ok |-> k] :
        n \in EntryNames, d \in BOOLEAN, k \in BOOLEAN}

\* the sequences over S of length at most n
SeqsUpTo(S, n) == UNION {[1..k -> S] : k \in 0..n}

\* no two entries of a directory have the same name
DistinctNames(entries) ==
    \A i \in 1..Len(entries), j \in 1..Len(entries) :
        i # j => entries[i].name # entries[j].name

GetList ==
    /\ req = NoRequest
    /\ \E handler \in ListHandlers, connected \in BOOLEAN, remoteOk \in BOOLEAN,
          entries \in {x \in SeqsUpTo(RemoteEntries, MaxEntries) : DistinctNames(x)} :
        /\ req' = [handler |-> handler,
                   inputs |-> [connected |-> connected, remoteOk |-> remoteOk,
                               entries |-> entries]]
        /\ res' = CloudList(handler, connected, remoteOk, entries)
    /\ UNCHANGED <<now, createClient, clients, pending, issued, disconnected,
                   out, serverUp, streams, loopVars, playerVars, scanVars>>

\* the files of a directory tree: stat succeeds on a file or fails (ok)
TreeFiles ==
    {[name |-> n, dir |-> FALSE, ok |-> k, children |-> <<>>] :
        n \in EntryNames, k \in BOOLEAN}

\* the sub-directory d of a tree: reading it succeeds or fails (ok)
TreeDirs ==
    {[name |-> <<"d">>, dir |-> TRUE, ok |-> k, children |-> c] :
        k \in BOOLEAN,
        c \in {x \in SeqsUpTo(TreeFiles, MaxSubEntries) : DistinctNames(x)}}

\* the directories a scan is started on
Trees ==
    {t \in SeqsUpTo(TreeFiles \cup TreeDirs, MaxEntries) : DistinctNames(t)}

\* stats.mtime.getTime() of the files of the trees
MtimeOf(name) ==
    CASE name = <<"a", ".", "m", "p", "3">> -> 1
      [] name = <<"B", ".", "F", "L", "A", "C">> -> 2
      [] OTHER -> 3

\* scanDirectory(dirPath, recursive): the for loop from the i-th entry on.
\* The try block encloses the whole loop: a stat that throws ends the loop
\* and the function returns what it has collected so far.
RECURSIVE ScanFrom(_, _, _, _)
ScanFrom(entries, i, dirPath, recursive) ==
    IF i > Len(entries) THEN <<>>
    ELSE
    LET e == entries[i]
        fullPath == dirPath \o <<e.name>>
    IN  IF e.dir /\ recursive
        THEN (IF e.ok THEN ScanFrom(e.children, 1, fullPath, recursive) ELSE <<>>)
                 \o ScanFrom(entries, i + 1, dirPath, recursive)
        ELSE IF ~e.dir /\ IncludesAudioExtension(e.name)
        THEN IF ~e.ok THEN <<>>
             ELSE <<[name |-> e.name, fullPath |-> fullPath, type |-> "local"]>>
                      \o ScanFrom(entries, i + 1, dirPath, recursive)
        ELSE ScanFrom(entries, i + 1, dirPath, recursive)

\* scanDirectory that descends into sub-directories whatever the flag
scanDirectoryAlways(tree, recursive) == ScanFrom(tree, 1, <<>>, TRUE)

\* scanDirectory of the directory the request names
scanDirectory(tree, recursive) == ScanFrom(tree, 1, <<>>, recursive)

\* const { path: scanPath, recursive = true } = req.body
RecursiveParams == {"absent", "true", "false"}

\* POST /api/local/scan
LocalScan(hasPath, accessOk, isDirectory, recursive, tree) ==
    IF ~hasPath \/ ~accessOk \/ ~isDirectory THEN ListResponse(400, "false", <<>>)
    ELSE ListResponse(200, "true", scanDirectory(tree, recursive # "false"))

\* scanMusicLibrary(dir, baseDir): the for loop from the i-th item on; each
\* item has its own try block
RECURSIVE LibraryFrom(_, _, _)
LibraryFrom(entries, i, dirPath) ==
    IF i > Len(entries) THEN <<>>
    ELSE
    LET e == entries[i]
        fullPath == dirPath \o <<e.name>>
        rest == LibraryFrom(entries, i + 1, dirPath)
    IN  IF e.dir
        THEN (IF e.ok THEN LibraryFrom(e.children, 1, fullPath) ELSE <<>>) \o rest
        ELSE IF ~e.ok THEN rest
        ELSE IF IncludesAudioExtension(e.name)
        THEN <<[name |-> e.name, fullPath |-> fullPath, type |-> "library",
                mtime |-> MtimeOf(e.name)]>> \o rest
        ELSE rest

scanMusicLibrary(tree, exists) ==
    IF ~exists THEN <<>> ELSE LibraryFrom(tree, 1, <<>>)

\* files.sort((a, b) => b.mtime - a.mtime): stable, the newest first
RECURSIVE SortByMtimeDesc(_)
SortByMtimeDesc(files) ==
    IF files = <<>> THEN <<>>
    ELSE LET rest == SortByMtimeDesc(Tail(files))
             before == SelectSeq(rest, LAMBDA f : f.mtime > Head(files).mtime)
             after == SelectSeq(rest, LAMBDA f : f.mtime <= Head(files).mtime)
         IN  before \o <<Head(files)>> \o after

\* GET /api/library/list
LibraryList(tree, exists) ==
    ListResponse(200, "true", SortByMtimeDesc(scanMusicLibrary(tree, exists)))

PostLocalScan ==
    /\ req = NoRequest
    /\ \E hasPath \in BOOLEAN, accessOk \in BOOLEAN, isDirectory \in BOOLEAN,
          recursive \in RecursiveParams, tree \in Trees :
        /\ req' = [handler |-> "localScan",
                   inputs |-> [hasPath |-> hasPath, accessOk |-> accessOk,
                               isDirectory |-> isDirectory,
                               recursive |-> recursive, tree |-> tree]]
        /\ res' = LocalScan(hasPath, accessOk, isDirectory, recursive, tree)
    /\ UNCHANGED <<now, createClient, clients, pending, issued, disconnected,
                   out, serverUp, streams, loopVars, playerVars, scanVars>>

GetLibraryList ==
    /\ req = NoRequest
    /\ \E exists \in BOOLEAN, tree \in Trees :
        /\ req' = [handler |-> "libraryList",
                   inputs |-> [exists |-> exists, tree |-> tree]]
        /\ res' = LibraryList(tree, exists)
    /\ UNCHANGED <<now, createClient, clients, pending, issued, disconnected,
                   out, serverUp, streams, loopVars, playerVars, scanVars>>

NextList ==
    \/ PostLocalScan
    \/ GetLibraryList
    \/ GetList
    \/ ResponseSent

----------------------------------------------------------------------------
(* The event loop: one thread runs every handler. A handler that awaits an *)
(* operation returns to the loop until the operation completes; a handler  *)
(* that calls a synchronous operation (fs.*Sync, execSync) keeps the loop  *)
(* until it returns.                                                       *)

SyncOp(kind) == [kind |-> kind, sync |-> TRUE]
AsyncOp(kind) == [kind |-> kind, sync |-> FALSE]

LoopHandlers == {"music", "libraryList", "writeAll", "localScan", "webdavList"}

\* The disk, subprocess and network operations of a handler, in order.
\* GET /api/music/:filename: fs.existsSync, fs.statSync
\* GET /api/library/list: scanMusicLibrary with readdirSync and statSync
\* POST /api/metadata/write-all: one execSync per song of the cache, in a
\*   loop without await, after the answer has been sent
\* POST /api/local/scan: await access, await stat, await scanDirectory
\* GET /api/webdav/list: await getDirectoryContents
Program(handler, songs) ==
    CASE handler = "music" -> <<SyncOp("disk"), SyncOp("disk")>>
      [] handler = "libraryList" -> <<SyncOp("disk")>>
      [] handler = "writeAll" -> [k \in 1..songs |-> SyncOp("subprocess")]
      [] handler = "localScan" ->
            <<AsyncOp("disk"), AsyncOp("disk"), AsyncOp("disk")>>
      [] OTHER -> <<AsyncOp("network")>>

\* no request in the slot
NoTask == [handler |-> "none", program |-> <<>>, pc |-> 0, inIO |-> FALSE]

\* the handler of the request has a step to run
Ready(i) == tasks[i] # NoTask /\ ~tasks[i].inIO

\* the event loop can run a step of request i
CanRun(i) == running \in {0, i}

\* a request arrives and its handler is queued
Arrive(i, handler, songs) ==
    /\ tasks[i] = NoTask
    /\ tasks' = [tasks EXCEPT ![i] =
           [handler |-> handler, program |-> Program(handler, songs),
            pc |-> 1, inIO |-> FALSE]]
    /\ UNCHANGED <<running, rangeVars, now, createClient, clients, pending,
                   issued, disconnected, out, serverUp, streams,
                   playerVars, scanVars>>

\* the loop runs the handler up to its next operation: a synchronous call
\* keeps the loop, an awaited one gives it back
StartOp(i) ==
    /\ Ready(i)
    /\ CanRun(i)
    /\ tasks' = [tasks EXCEPT ![i].inIO = TRUE]
    /\ running' = IF tasks[i].program[tasks[i].pc].sync THEN i ELSE 0
    /\ UNCHANGED <<rangeVars, now, createClient, clients, pending,
                   issued, disconnected, out, serverUp, streams,
                   playerVars, scanVars>>

\* the operation completes. After the last one the handler answers, which
\* takes the loop, and is done; after a synchronous one the handler goes on
\* without returning to the loop.
OpDone(i) ==
    /\ tasks[i].inIO
    /\ LET t == tasks[i]
           last == t.pc = Len(t.program)
       IN  /\ last => CanRun(i)
           /\ tasks' = [tasks EXCEPT ![i] =
                  IF last THEN NoTask ELSE [t EXCEPT !.pc = @ + 1, !.inIO = FALSE]]
           /\ running' = IF running = i /\ last THEN 0 ELSE running
    /\ UNCHANGED <<rangeVars, now, createClient, clients, pending,
                   issued, disconnected, out, serverUp, streams,
                   playerVars, scanVars>>

InitLoop ==
    /\ tasks = [i \in 1..MaxTasks |-> NoTask]
    /\ running = 0

NextLoop ==
    \/ \E i \in 1..MaxTasks, handler \in LoopHandlers, songs \in 1..MaxSongs :
            Arrive(i, handler, songs)
    \/ \E i \in 1..MaxTasks : StartOp(i)
    \/ \E i \in 1..MaxTasks : OpDone(i)

----------------------------------------------------------------------------
(* The player of public/js/app.js: its playlist, its current index, the    *)
(* audio element and the start-up loads. Indexes are those of JavaScript:  *)
(* playlist[i] of the code is playlist[i + 1] here.                        *)

Tracks == 1..MaxTracks

\* this.playlist[index]
TrackAt(list, index) ==
    IF index >= 0 /\ index < Len(list) THEN list[index + 1] ELSE 0

\* the audio element without src
NoAudio == [src |-> 0, state |-> "empty"]

\* playlist.find(t => t.id === file.id) finds nothing
NotInList(list, id) == \A k \in 1..Len(list) : list[k] # id

\* files.forEach(file => { if (!playlist.find(...)) playlist.push(file) })
RECURSIVE PushMissing(_, _)
PushMissing(list, files) ==
    IF files = <<>> THEN list
    ELSE PushMissing(
             IF NotInList(list, Head(files)) THEN Append(list, Head(files))
             ELSE list,
             Tail(files))

\* playlist.splice(index, 1)
Splice(list, index) ==
    [k \in 1..(Len(list) - 1) |-> IF k <= index THEN list[k] ELSE list[k + 1]]

\* what GET /api/library/list and GET /api/files return
LibraryFiles == <<1>>
UploadedFiles == <<2>>
\* what GET /api/playlist/load may return: the playlist saved earlier
SavedPlaylists == {<<>>, <<3>>, <<3, 1>>}

\* playTrack(index), called with the audio element as it was: an index
\* outside the playlist is ignored; otherwise the index becomes current and
\* the audio element is given the track
playTrack(index, was) ==
    IF index < 0 \/ index >= Len(playlist)
    THEN currentIndex' = currentIndex /\ audio' = was
    ELSE /\ currentIndex' = index
         /\ audio' = [src |-> playlist[index + 1], state |-> "started"]

\* the next index without the modulo
NextIndexesNoWrap ==
    IF isShuffle THEN 0..(Len(playlist) - 1) ELSE {currentIndex + 1}

\* the indexes playNext may choose: Math.random with shuffle, the next
\* index modulo the length without
NextIndexes ==
    IF isShuffle THEN 0..(Len(playlist) - 1)
    ELSE {(currentIndex + 1) % Len(playlist)}

\* playNext()
playNext(was) ==
    IF Len(playlist) = 0
    THEN currentIndex' = currentIndex /\ audio' = was
    ELSE \E nextIndex \in NextIndexes : playTrack(nextIndex, was)

\* the indexes playPrevious may choose
PrevIndexes ==
    IF isShuffle THEN 0..(Len(playlist) - 1)
    ELSE {(currentIndex - 1 + Len(playlist)) % Len(playlist)}

\* playPrevious(): more than 3 seconds into the track it restarts it
playPrevious(later, was) ==
    IF Len(playlist) = 0 \/ later
    THEN currentIndex' = currentIndex /\ audio' = was
    ELSE \E prevIndex \in PrevIndexes : playTrack(prevIndex, was)

\* an action of the user
UserInput ==
    /\ userInputs < MaxInputs
    /\ userInputs' = userInputs + 1

\* a click on a track of the rendered playlist
ClickTrack(index) ==
    /\ UserInput
    /\ playTrack(index, audio)
    /\ UNCHANGED <<playlist, repeatMode, isShuffle, settings, timers, loads,
                   world, serverVars>>

ClickNext ==
    /\ UserInput
    /\ playNext(audio)
    /\ UNCHANGED <<playlist, repeatMode, isShuffle, settings, timers, loads,
                   world, serverVars>>

ClickPrevious(later) ==
    /\ UserInput
    /\ audio.state = "started" \/ ~later
    /\ playPrevious(later, audio)
    /\ UNCHANGED <<playlist, repeatMode, isShuffle, settings, timers, loads,
                   world, serverVars>>

toggleShuffle ==
    /\ UserInput
    /\ isShuffle' = ~isShuffle
    /\ UNCHANGED <<playlist, currentIndex, repeatMode, settings, audio, timers,
                   loads, world, serverVars>>

\* modes[(modes.indexOf(repeatMode) + 1) % 3] of ['none', 'all', 'one']
toggleRepeat ==
    /\ UserInput
    /\ repeatMode' = CASE repeatMode = "none" -> "all"
                       [] repeatMode = "all" -> "one"
                       [] OTHER -> "none"
    /\ UNCHANGED <<playlist, currentIndex, isShuffle, settings, audio, timers,
                   loads, world, serverVars>>

\* removeTrack(index) of a rendered track
removeTrack(index) ==
    /\ UserInput
    /\ playlist' = Splice(playlist, index)
    /\ IF index = currentIndex
       THEN currentIndex' = -1 /\ audio' = NoAudio
       ELSE IF index < currentIndex
       THEN currentIndex' = currentIndex - 1 /\ UNCHANGED audio
       ELSE UNCHANGED <<currentIndex, audio>>
    /\ UNCHANGED <<repeatMode, isShuffle, settings, timers, loads, world,
                   serverVars>>

clearPlaylist ==
    /\ UserInput
    /\ playlist' = <<>>
    /\ currentIndex' = -1
    /\ audio' = NoAudio
    /\ UNCHANGED <<repeatMode, isShuffle, settings, timers, loads, world,
                   serverVars>>

\* addLocalTrack(id, ...): the track is pushed unless its id is listed
addLocalTrack(id) ==
    /\ UserInput
    /\ playlist' = PushMissing(playlist, <<id>>)
    /\ UNCHANGED <<currentIndex, repeatMode, isShuffle, settings, audio,
                   timers, loads, world, serverVars>>

\* the 'ended' event of the audio element, which has played its track to
\* the end: onTrackEnded(). In mode 'one' it plays the element again.
onTrackEnded ==
    /\ audio.state = "started"
    /\ audio.src \notin world.broken
    /\ LET ended == [audio EXCEPT !.state = "ended"]
       IN  IF repeatMode = "one"
           THEN currentIndex' = currentIndex /\ audio' = audio
           ELSE IF repeatMode = "all" \/ currentIndex < Len(playlist) - 1
           THEN playNext(ended)
           ELSE IF settings.autoplay /\ isShuffle
           THEN playNext(ended)
           ELSE currentIndex' = currentIndex /\ audio' = ended
    /\ UNCHANGED <<playlist, repeatMode, isShuffle, settings, timers, loads,
                   userInputs, world, serverVars>>

\* the 'error' event of the audio element: onError(e) arms a timer when
\* the playlist has more than one track
onError ==
    /\ audio.state = "started"
    /\ audio.src \in world.broken
    /\ audio' = [audio EXCEPT !.state = "error"]
    /\ IF Len(playlist) > 1
       THEN timers < MaxTimers /\ timers' = timers + 1
       ELSE UNCHANGED timers
    /\ UNCHANGED <<playlist, currentIndex, repeatMode, isShuffle, settings,
                   loads, userInputs, world, serverVars>>

\* the timer of onError fires: playNext()
TimerFires ==
    /\ timers > 0
    /\ timers' = timers - 1
    /\ playNext(audio)
    /\ UNCHANGED <<playlist, repeatMode, isShuffle, settings, loads, userInputs,
                   world, serverVars>>

\* the answer of GET /api/playlist/load arrives: a playlist that is not
\* empty replaces this.playlist
loadPlaylistFromServer ==
    /\ loads.playlist = "pending"
    /\ loads' = [loads EXCEPT !.playlist = "done"]
    /\ playlist' = IF Len(world.saved) > 0 THEN world.saved ELSE playlist
    /\ UNCHANGED <<currentIndex, repeatMode, isShuffle, settings, audio,
                   timers, userInputs, world, serverVars>>

\* the answer of GET /api/library/list arrives; loadServerFiles then
\* fetches /api/files
loadMusicLibrary ==
    /\ loads.library = "pending"
    /\ loads' = [loads EXCEPT !.library = "done", !.files = "pending"]
    /\ playlist' = PushMissing(playlist, LibraryFiles)
    /\ UNCHANGED <<currentIndex, repeatMode, isShuffle, settings, audio,
                   timers, userInputs, world, serverVars>>

\* the answer of GET /api/files arrives
loadServerFiles ==
    /\ loads.files = "pending"
    /\ loads' = [loads EXCEPT !.files = "done"]
    /\ playlist' = PushMissing(playlist, UploadedFiles)
    /\ UNCHANGED <<currentIndex, repeatMode, isShuffle, settings, audio,
                   timers, userInputs, world, serverVars>>

\* the player before its page is opened
PlayerOff ==
    /\ playlist = <<>>
    /\ currentIndex = -1
    /\ repeatMode = "none"
    /\ isShuffle = FALSE
    /\ settings = [autoplay |-> TRUE]
    /\ audio = NoAudio
    /\ timers = 0
    /\ loads = [playlist |-> "done", library |-> "done", files |-> "done"]
    /\ userInputs = 0
    /\ world = [broken |-> {}, saved |-> <<>>]

\* the constructor and init(): the three fields, the settings read from
\* localStorage, and the fetches of /api/playlist/load and
\* /api/library/list on their way
InitPlayer ==
    /\ playlist = <<>>
    /\ currentIndex = -1
    /\ repeatMode = "none"
    /\ isShuffle = FALSE
    /\ settings \in {[autoplay |-> a] : a \in BOOLEAN}
    /\ audio = NoAudio
    /\ timers = 0
    /\ loads = [playlist |-> "pending", library |-> "pending",
                files |-> "notStarted"]
    /\ userInputs = 0
    /\ world \in {[broken |-> b, saved |-> p] :
                     b \in {{}, {1}, Tracks}, p \in SavedPlaylists}

NextPlayer ==
    \/ \E index \in 0..(Len(playlist) - 1) : ClickTrack(index)
    \/ ClickNext
    \/ \E later \in BOOLEAN : ClickPrevious(later)
    \/ toggleShuffle
    \/ toggleRepeat
    \/ \E index \in 0..(Len(playlist) - 1) : removeTrack(index)
    \/ clearPlaylist
    \/ \E id \in Tracks : addLocalTrack(id)
    \/ onTrackEnded
    \/ onError
    \/ TimerFires
    \/ loadPlaylistFromServer
    \/ loadMusicLibrary
    \/ loadServerFiles

----------------------------------------------------------------------------
(* The batch identification: /api/scan/start, its background loop and      *)
(* /api/scan/stop.                                                         *)

\* the names of the music files of the library and the upload directory
ScanNames == <<"a.mp3", "b.mp3">>
\* allFiles as a start collects it
AllFiles(n) == SubSeq(ScanNames, 1, n)

\* let scanProgress = { isScanning: false, total: 0, current: 0, ... }
IdleProgress ==
    [isScanning |-> FALSE, total |-> 0, current |-> 0, currentFile |-> "",
     results |-> <<>>, errors |-> <<>>]

NoLoop == [files |-> <<>>, i |-> 0, pc |-> "none"]

\* the answers: error is "scanning" for the message that a scan is in
\* progress, "noFiles" for no music file found, "notScanning" for no scan
\* in progress
NoScanReply == [op |-> "none", success |-> FALSE, error |-> "none"]
ScanReply(op, success, error) ==
    [op |-> op, success |-> success, error |-> error]

\* the head of an iteration of the background loop, up to its await:
\* scanProgress.current = i + 1; scanProgress.currentFile = file.filename
Iterate(progress, files, i) ==
    [progress EXCEPT !.current = i + 1, !.currentFile = files[i + 1]]

\* the loop goes on after iteration i: the next iteration, or the end of
\* the loop with scanProgress.isScanning = false
Advance(k, progress) ==
    LET l == loops[k]
    IN  IF l.i + 1 < Len(l.files)
        THEN /\ scanProgress' = Iterate(progress, l.files, l.i + 1)
             /\ loops' = [loops EXCEPT ![k] = [l EXCEPT !.i = l.i + 1,
                                                        !.pc = "identify"]]
        ELSE /\ scanProgress' = [progress EXCEPT !.isScanning = FALSE]
             /\ loops' = [loops EXCEPT ![k] = NoLoop]

\* /api/scan/start past its two early returns: scanProgress is reset, the
\* answer is sent and the background loop runs up to its first await
BeginScan(n) ==
    /\ n > 0
    /\ \E k \in 1..MaxLoops :
           /\ loops[k] = NoLoop
           /\ \A j \in 1..(k - 1) : loops[j] # NoLoop
           /\ loops' = [loops EXCEPT ![k] =
                  [files |-> AllFiles(n), i |-> 0, pc |-> "identify"]]
    /\ scanProgress' = Iterate([IdleProgress EXCEPT !.isScanning = TRUE,
                                                    !.total = n],
                           AllFiles(n), 0)
    /\ scanOut' = ScanReply("start", TRUE, "none")
    /\ UNCHANGED <<rangeVars, now, createClient, clients, pending, issued,
                   disconnected, out, serverUp, streams, loopVars, playerVars>>

\* POST /api/scan/start with n music files on the disk
scanStart(n) ==
    IF scanProgress.isScanning
    THEN /\ scanOut' = ScanReply("start", FALSE, "scanning")
         /\ UNCHANGED <<scanProgress, loops, rangeVars, now, createClient,
                        clients, pending, issued, disconnected, out, serverUp,
                        streams, loopVars, playerVars>>
    ELSE IF n = 0
    THEN /\ scanOut' = ScanReply("start", FALSE, "noFiles")
         /\ UNCHANGED <<scanProgress, loops, rangeVars, now, createClient,
                        clients, pending, issued, disconnected, out, serverUp,
                        streams, loopVars, playerVars>>
    ELSE BeginScan(n)

\* identifySong of the iteration settles: its result is pushed and the
\* loop waits 500 ms, or its error is pushed and the loop goes on
IdentifyDone(k, ok) ==
    /\ loops[k].pc = "identify"
    /\ LET file == loops[k].files[loops[k].i + 1]
       IN  IF ok
           THEN /\ scanProgress' =
                       [scanProgress EXCEPT !.results = Append(@, file)]
                /\ loops' = [loops EXCEPT ![k].pc = "delay"]
           ELSE Advance(k, [scanProgress EXCEPT !.errors = Append(@, file)])
    /\ UNCHANGED <<scanOut, rangeVars, now, createClient, clients, pending,
                   issued, disconnected, out, serverUp, streams, loopVars,
                   playerVars>>

\* the 500 ms delay of the iteration is over
DelayDone(k) ==
    /\ loops[k].pc = "delay"
    /\ Advance(k, scanProgress)
    /\ UNCHANGED <<scanOut, rangeVars, now, createClient, clients, pending,
                   issued, disconnected, out, serverUp, streams, loopVars,
                   playerVars>>

\* POST /api/scan/stop
scanStop ==
    /\ IF scanProgress.isScanning
       THEN /\ scanProgress' = [scanProgress EXCEPT !.isScanning = FALSE]
            /\ scanOut' = ScanReply("stop", TRUE, "none")
       ELSE /\ scanOut' = ScanReply("stop", FALSE, "notScanning")
            /\ UNCHANGED scanProgress
    /\ UNCHANGED <<loops, rangeVars, now, createClient, clients, pending,
                   issued, disconnected, out, serverUp, streams, loopVars,
                   playerVars>>

InitScan ==
    /\ scanProgress = IdleProgress
    /\ loops = [k \in 1..MaxLoops |-> NoLoop]
    /\ scanOut = NoScanReply

NextScan ==
    \/ \E n \in 0..MaxScanFiles : scanStart(n)
    \/ \E k \in 1..MaxLoops, ok \in BOOLEAN : IdentifyDone(k, ok)
    \/ \E k \in 1..MaxLoops : DelayDone(k)
    \/ scanStop

----------------------------------------------------------------------------
(* The library handlers that take a path from the URL:                     *)
(* /api/library/stream/:filepath and /api/library/cover/:filepath.   *)
(* Paths are POSIX paths, strings of characters.                           *)

\* String.prototype.startsWith
StartsWith(s, prefix) == MatchesAt(prefix, s, 1)

\* the segments of a path resolved from left to right: '' and '.' are
\* dropped, '..' removes the segment before it, at the root it is dropped
RECURSIVE Resolve(_, _)
Resolve(segments, stack) ==
    IF segments = <<>> THEN stack
    ELSE LET h == Head(segments)
         IN  Resolve(Tail(segments),
                 IF h = <<>> \/ h = <<".">> THEN stack
                 ELSE IF h = <<".", ".">>
                 THEN (IF stack = <<>> THEN stack
                       ELSE SubSeq(stack, 1, Len(stack) - 1))
                 ELSE Append(stack, h))

RECURSIVE JoinSegments(_)
JoinSegments(stack) ==
    IF stack = <<>> THEN <<>>
    ELSE <<"/">> \o Head(stack) \o JoinSegments(Tail(stack))

\* path.normalize of an absolute path; a trailing slash is kept
Normalize(p) ==
    LET stack == Resolve(Split(p, "/"), <<>>)
    IN  IF stack = <<>> THEN <<"/">>
        ELSE JoinSegments(stack)
                 \o (IF p[Len(p)] = "/" THEN <<"/">> ELSE <<>>)

\* path.join(dir, p) for an absolute dir
PathJoin(dir, p) ==
    IF p = <<>> THEN Normalize(dir) ELSE Normalize(dir \o <<"/">> \o p)

\* libraryDir, here /m/l
libraryDir == <<"/", "m", "/", "l">>

\* the files of the disk: two of the library, one of the sibling directory
\* /m/l2 and one of the parent directory, with their sizes
DiskFiles ==
    (<<"/", "m", "/", "l", "/", "a", ".", "m", "p", "3">> :> 3)
        @@ (<<"/", "m", "/", "l", "/", "d", "/", "b", ".", "m", "p", "3">> :> 2)
        @@ (<<"/", "m", "/", "l", "2", "/", "c", ".", "m", "p", "3">> :> 1)
        @@ (<<"/", "m", "/", "s", ".", "m", "p", "3">> :> 2)

\* the paths requested
FilePaths ==
    { <<"a", ".", "m", "p", "3">>,
      <<"d", "/", "b", ".", "m", "p", "3">>,
      <<"d", "/", ".", ".", "/", "a", ".", "m", "p", "3">>,
      <<".", ".", "/", "l", "2", "/", "c", ".", "m", "p", "3">>,
      <<".", ".", "/", "s", ".", "m", "p", "3">>,
      <<".", ".", "/", "l", "/", "a", ".", "m", "p", "3">>,
      <<"x", ".", "m", "p", "3">>,
      <<".", ".">>,
      <<".", "/", "a", ".", "m", "p", "3">>,
      <<".", ".", "/", "l", "2", "/", ".", ".", "/", "l", "/", "a", ".", "m", "p", "3">>,
      <<"d", "/">>,
      <<>> }

\* the last segment of a path
BaseName(p) ==
    LET segments == Split(p, "/") IN segments[Len(segments)]

\* the startsWith check of both handlers
InsideLibrary(fullPath) ==
    StartsWith(Normalize(fullPath), Normalize(libraryDir))

\* GET /api/library/stream/:filepath for a decoded filepath
LibraryStreamPath(filepath, hasRange, range) ==
    LET fullPath == PathJoin(libraryDir, filepath)
        exists == fullPath \in DOMAIN DiskFiles
        file == [name |-> BaseName(fullPath),
                 bytes |-> IF exists THEN Content(DiskFiles[fullPath])
                           ELSE <<>>]
    IN  LibraryStream(file, InsideLibrary(fullPath), exists, hasRange, range)

\* GET /api/library/cover/:filepath
LibraryCover(filepath, hasModule, parseOk, hasPicture) ==
    LET fullPath == PathJoin(libraryDir, filepath)
    IN  IF ~hasModule THEN JsonError(500, "false")
        ELSE IF ~InsideLibrary(fullPath) THEN JsonError(403, "absent")
        ELSE IF fullPath \notin DOMAIN DiskFiles THEN JsonError(404, "false")
        ELSE IF ~parseOk THEN JsonError(500, "false")
        ELSE IF hasPicture
        THEN Response(200, "image",
                 ("Content-Type" :> "picture.format")
                     @@ ("Cache-Control" :> "public, max-age=604800"),
                 <<>>, "absent", "none")
        ELSE JsonError(404, "false")

GetLibraryStreamPath ==
    /\ req = NoRequest
    /\ \E filepath \in FilePaths, h \in RangeChoices(SessionRanges) :
        /\ req' = [handler |-> "libraryStream", filepath |-> filepath,
                   hasRange |-> h[1], range |-> h[2]]
        /\ res' = LibraryStreamPath(filepath, h[1], h[2])
    /\ UNCHANGED <<now, createClient, clients, pending, issued, disconnected,
                   out, serverUp, streams, loopVars, playerVars, scanVars>>

GetLibraryCover ==
    /\ req = NoRequest
    /\ \E filepath \in FilePaths, hasModule \in BOOLEAN, parseOk \in BOOLEAN,
          hasPicture \in BOOLEAN :
        /\ req' = [handler |-> "libraryCover", filepath |-> filepath,
                   hasModule |-> hasModule, parseOk |-> parseOk,
                   hasPicture |-> hasPicture]
        /\ res' = LibraryCover(filepath, hasModule, parseOk, hasPicture)
    /\ UNCHANGED <<now, createClient, clients, pending, issued, disconnected,
                   out, serverUp, streams, loopVars, playerVars, scanVars>>

NextLibrary ==
    \/ GetLibraryStreamPath
    \/ GetLibraryCover
    \/ ResponseSent

----------------------------------------------------------------------------
(* Specifications.                                                         *)

Init ==
    /\ InitRange
    /\ InitSessions
    /\ InitStreams
    /\ InitLoop
    /\ InitScan
    /\ PlayerOff

\* the server with sessions waiting in its registries and no stream
InitPipe ==
    /\ InitRange
    /\ InitStreams
    /\ InitLoop
    /\ InitScan
    /\ PlayerOff
    /\ now = 0
    /\ createClient = Loaded
    /\ clients \in {EmptyRegistries, OneSession}
    /\ pending = <<>>
    /\ issued = IF clients = EmptyRegistries THEN {} ELSE {ClientId(S_quark, 0)}
    /\ disconnected = {}
    /\ out = NoReply
    /\ serverUp = TRUE

\* connect, list, stream and disconnect requests in any interleaving
Spec == Init /\ [][NextSessions]_vars

\* the stream handlers answering one request after another
SpecRange == Init /\ [][NextRange]_vars

\* the list and scan handlers answering one request after another
SpecList == Init /\ [][NextList]_vars

\* the player in the browser
InitPage ==
    /\ InitRange
    /\ InitSessions
    /\ InitStreams
    /\ InitLoop
    /\ InitScan
    /\ InitPlayer

SpecPlayer == InitPage /\ [][NextPlayer]_vars

\* the browser delivers the events of the audio element, runs the timers
\* that are due and the continuations of the fetches that were answered
FairSpecPlayer ==
    /\ SpecPlayer
    /\ WF_vars(onTrackEnded)
    /\ WF_vars(onError)
    /\ WF_vars(TimerFires)
    /\ WF_vars(loadPlaylistFromServer)
    /\ WF_vars(loadMusicLibrary)
    /\ WF_vars(loadServerFiles)

\* requests for files of the library by path
SpecLibrary == Init /\ [][NextLibrary]_vars

\* the batch identification and its requests
SpecScan == Init /\ [][NextScan]_vars

\* requests of several clients sharing the event loop
SpecLoop == Init /\ [][NextLoop]_vars

\* piped stream responses, their sources and their clients
SpecPipe == InitPipe /\ [][NextPipe]_vars

\* the event loop runs a ready step of a pipe: a chunk that can be read is
\* read and an ended source is closed
FairSpecPipe ==
    /\ SpecPipe
    /\ \A i \in 1..MaxStreams : WF_vars(PipeChunk(i)) /\ WF_vars(PipeEnd(i))

----------------------------------------------------------------------------
(* Properties of the Range handling.                                       *)

DirectHandlers ==
    {"music", "webdav", "gdrive", "local", "library",
     "musicV1", "webdavV1", "gdriveV1"}

ProxyHandlers == {"alist", "quark"}

\* the request reaches the streaming part of its handler: the session is
\* connected, the file exists and the remote calls before it succeeded
Served(r) ==
    CASE r.handler \in {"music", "musicV1"} -> r.inputs.exists
      [] r.handler \in {"webdav", "webdavV1"} ->
            r.inputs.connected /\ r.inputs.statOk
      [] r.handler \in {"gdrive", "gdriveV1"} ->
            r.inputs.connected /\ r.inputs.metaOk
      [] r.handler = "local" -> r.inputs.hasPath /\ r.inputs.exists
      [] r.handler = "library" -> r.inputs.inside /\ r.inputs.exists
      [] r.handler = "alist" ->
            /\ r.inputs.connected /\ r.inputs.getOk /\ r.inputs.hasRawUrl
            /\ r.inputs.hasSign /\ r.inputs.fetchOk
      [] r.handler = "quark" ->
            r.inputs.connected /\ r.inputs.downloadOk /\ r.inputs.fetchOk
      [] r.handler \in RedirectRegistries ->
            r.inputs.connected /\ r.inputs.fetchOk /\ r.inputs.hasLink
      [] OTHER -> FALSE

\* the total size of the file is known to the handler
SizeKnown(r) ==
    r.handler \in {"gdrive", "gdriveV1"} => r.inputs.sizeKnown

\* Range: bytes=<s>-<e>
ClosedRange(s, e) == S_bytesEq \o NatToString(s) \o <<"-">> \o NatToString(e)
\* Range: bytes=<s>-
OpenRange(s) == S_bytesEq \o NatToString(s) \o <<"-">>
\* Content-Range: bytes <s>-<e>/<T>
BytesOf(s, e, T) ==
    <<"b", "y", "t", "e", "s", " ">> \o NatToString(s) \o <<"-">>
        \o NatToString(e) \o <<"/">> \o NatToString(T)

\* a direct-streaming handler answered a request on a file of known size
DirectServed ==
    /\ req.handler \in DirectHandlers
    /\ Served(req)
    /\ SizeKnown(req)

\* C1: a direct-streaming handler answers Range: bytes=s-e with
\* 0 <= s <= e < T, or bytes=s- (then e = T-1), on a file of known size T
\* with 206, Content-Range: bytes s-e/T, Accept-Ranges: bytes,
\* Content-Length e-s+1 and the source bytes at offsets s..e as body.
C1_RangeResponse ==
    DirectServed /\ req.hasRange =>
        LET T == Len(req.file.bytes)
        IN  \A s \in 0..MaxNum, e \in 0..MaxNum :
                /\ s <= e /\ e < T
                /\ \/ req.range = ClosedRange(s, e)
                   \/ e = T - 1 /\ req.range = OpenRange(s)
                => /\ res.status = 206
                   /\ "Content-Range" \in DOMAIN res.headers
                   /\ res.headers["Content-Range"] = BytesOf(s, e, T)
                   /\ res.headers["Accept-Ranges"] = "bytes"
                   /\ res.headers["Content-Length"] = NatToString(e - s + 1)
                   /\ res.body = [i \in 1..(e - s + 1) |-> req.file.bytes[s + i]]

\* C1 witness: the uploaded-file handler answered bytes=1-2 on a 3-byte
\* file, and the local handler answered the open range bytes=1- on it
C1_Witness ==
    /\ req.handler \in {"music", "local"}
    /\ Served(req) /\ req.hasRange
    /\ Len(req.file.bytes) = 3
    /\ \/ req.handler = "music" /\ req.range = ClosedRange(1, 2)
       \/ req.handler = "local" /\ req.range = OpenRange(1)
    /\ res.status = 206
    /\ Len(res.body) = 2

\* C23: whenever a direct-streaming handler answers 206 on a file of known
\* size T, whatever the Range header, the start and end of its
\* Content-Range satisfy 0 <= start <= end <= T-1 and its Content-Length is
\* end-start+1, at least 1 and at most T.
C23_PartialWithinFile ==
    DirectServed /\ res.status = 206 =>
        LET T == Len(req.file.bytes)
        IN  \E s \in 0..(T - 1), e \in 0..(T - 1) :
                /\ s <= e
                /\ "Content-Range" \in DOMAIN res.headers
                /\ res.headers["Content-Range"] = BytesOf(s, e, T)
                /\ res.headers["Content-Length"] = NatToString(e - s + 1)

\* the Range header is malformed for a file of size T: a non-numeric
\* bound, start > end, or start >= T
Malformed(range, T) ==
    \/ \E a \in {S_abc, S_def}, b \in Tokens :
          range \in {S_bytesEq \o a \o <<"-">> \o b, S_bytesEq \o b \o <<"-">> \o a}
    \/ \E s \in 0..MaxNum, e \in 0..MaxNum :
          /\ s > e \/ s >= T
          /\ range = ClosedRange(s, e)
    \/ \E s \in 0..MaxNum : s >= T /\ range = OpenRange(s)

\* C2: a stream request whose Range header is malformed gets what a
\* request without Range header gets: 200, Content-Length equal to the
\* total size and the full body; never a 206 and never an error response.
C2_MalformedRangeServedWhole ==
    DirectServed /\ req.hasRange /\ Malformed(req.range, Len(req.file.bytes)) =>
        /\ res.status = 200
        /\ res.headers["Content-Length"] = NatToString(Len(req.file.bytes))
        /\ res.body = req.file.bytes

\* C3: a stream request without Range header to a direct-streaming handler
\* on a file of known size T gets 200, Content-Length: T,
\* Accept-Ranges: bytes and the T bytes of the file.
C3_NoRangeResponse ==
    DirectServed /\ ~req.hasRange =>
        /\ res.status = 200
        /\ res.headers["Content-Length"] = NatToString(Len(req.file.bytes))
        /\ "Accept-Ranges" \in DOMAIN res.headers
        /\ res.headers["Accept-Ranges"] = "bytes"
        /\ res.body = req.file.bytes

C26_UpstreamErrorNotRelayedAs200 ==
    req.handler \in ProxyHandlers /\ Served(req)
        /\ req.inputs.up.status \notin {200, 206}
    => res.status \notin 200..299

C12_RedirectIgnoresRange ==
    req.handler \in RedirectRegistries /\ Served(req) =>
        /\ res.status = 302
        /\ res.kind = "redirect"
        /\ DOMAIN res.headers = {"Location"}
        /\ res.headers["Location"] \in {"link", "link&access_token=token"}
        /\ res.body = <<>>
        /\ res.fault = "none"

\* C12 witness: the Dropbox handler redirected a request with a malformed
\* Range header, and the Baidu handler one with Range: bytes=1-2
C12_Witness ==
    /\ req.handler \in {"dropboxClients", "baiduClients"}
    /\ Served(req) /\ req.hasRange
    /\ \/ req.handler = "dropboxClients" /\ req.range = S_bytesEq \o S_abc \o <<"-">> \o S_def
       \/ req.handler = "baiduClients" /\ req.range = ClosedRange(1, 2)
    /\ res.status = 302

\* how a response serves the file: by streaming bytes or by a redirect;
\* "none" for an error answer
VariantOf(r) == IF r.kind \in {"stream", "redirect"} THEN r.kind ELSE "none"

\* the variants of the successful answers of a handler, over the files and
\* over what the remote service returns (a size or none, a sign or none,
\* a Content-Length or none, a link)
SuccessVariants(handler) ==
    LET all ==
        CASE handler \in {"music", "musicV1"} ->
                {VariantOf(MusicStream(f, TRUE, FALSE, <<>>)) : f \in Files}
          [] handler \in {"webdav", "webdavV1"} ->
                {VariantOf(WebdavStream(f, TRUE, TRUE, FALSE, <<>>)) : f \in Files}
          [] handler \in {"gdrive", "gdriveV1"} ->
                {VariantOf(GdriveStream(f, TRUE, TRUE, k, FALSE, <<>>)) :
                    f \in Files, k \in BOOLEAN}
          [] handler = "local" ->
                {VariantOf(LocalStream(f, TRUE, TRUE, FALSE, <<>>)) : f \in Files}
          [] handler = "library" ->
                {VariantOf(LibraryStream(f, TRUE, TRUE, FALSE, <<>>)) : f \in Files}
          [] handler = "alist" ->
                UNION {{VariantOf(AlistStream(f, TRUE, TRUE, TRUE, sign, TRUE,
                                      FALSE, <<>>, up)) : up \in Upstreams(f, FALSE)} :
                          f \in Files, sign \in BOOLEAN}
          [] handler = "quark" ->
                UNION {{VariantOf(QuarkStream(TRUE, TRUE, TRUE, FALSE, <<>>, up)) :
                            up \in Upstreams(f, FALSE)} : f \in Files}
          [] OTHER ->
                {VariantOf(RedirectStream(handler, TRUE, TRUE, TRUE, FALSE, <<>>))}
    IN  all \ {"none"}

\* C13: for each backend kind the way a stream request is served (streaming
\* or redirect) is fixed: a successful answer of a handler has the variant
\* of every other successful answer of the same handler, whatever the file
\* and whatever the remote service returned.
C13_VariantFixedPerKind ==
    req.handler # "none" /\ VariantOf(res) # "none" =>
        SuccessVariants(req.handler) = {VariantOf(res)}

\* C14: every 200 or 206 response of every stream handler carries the
\* Content-Type the fixed table gives for the extension of the requested
\* file (mp3, wav, flac, ogg, m4a, aac, wma), audio/mpeg for any other
\* extension, whatever the upstream reports.
C14_ContentTypeByExtension ==
    req.handler # "none" /\ res.status \in {200, 206} =>
        /\ "Content-Type" \in DOMAIN res.headers
        /\ res.headers["Content-Type"] = ContentTypeOf(req.file.name)

S_NaN == <<"N", "a", "N">>

\* the header value v contains the text NaN
ContainsNaN(v) == \E i \in 1..Len(v) : MatchesAt(S_NaN, v, i)

\* C15: when the size of the file is unknown and the request carries
\* Range: bytes=<start>-, the answer is 206 with a Content-Range that
\* starts at <start> and gives the total as '*'; no Content-Range and no
\* Content-Length of an answer to a request with a Range header carries a
\* value computed from the missing size.
C15_UnknownSizeRange ==
    /\ req.handler \in {"gdrive", "gdriveV1"}
    /\ Served(req)
    /\ ~req.inputs.sizeKnown
    /\ HasRange(req)
    => /\ \A h \in {"Content-Range", "Content-Length"} \cap DOMAIN res.headers :
              ~ContainsNaN(res.headers[h])
       /\ \A s \in 0..MaxNum :
              req.range = OpenRange(s) =>
                  /\ res.status = 206
                  /\ "Content-Range" \in DOMAIN res.headers
                  /\ LET v == res.headers["Content-Range"]
                         from == <<"b", "y", "t", "e", "s", " ">> \o NatToString(s) \o <<"-">>
                     IN  /\ MatchesAt(from, v, 1)
                         /\ MatchesAt(<<"/", "*">>, v, Len(v) - 1)

----------------------------------------------------------------------------
(* Properties of the session registries.                                   *)

\* C5: any two successful connects return distinct clientIds: the clientId
\* a connect returns was returned by no earlier connect, whatever the
\* kinds and however close the two are.
C5_DistinctClientIds ==
    [][out.op = "none" /\ out'.clientId # Undefined
           => out'.clientId \notin issued]_vars

\* C6: once a disconnect has named a clientId, and for a clientId never
\* issued, every later list and stream request with it is answered with
\* the not-connected error, success false, without a call to the remote
\* service, for every registry.
C6_DisconnectedStaysOut ==
    serverUp =>
        \A registry \in Registries, clientId \in RequestIds :
            <<registry, clientId>> \in disconnected \/ clientId \notin issued
            => \A ok \in BOOLEAN, h \in RangeChoices(SessionRanges) :
                   /\ ListReply(registry, clientId, ok) = NotConnected("list")
                   /\ StreamReply(registry, clientId, ok, h[1], h[2])
                          = NotConnected("stream")

\* the answer {success: false, error} of a failed connect
ConnectFailure(reply) ==
    /\ reply.op = "connect"
    /\ reply.success = "false"
    /\ reply.error = "message"
    /\ reply.clientId = Undefined

\* C9: a connect request adds a session only after its probe succeeded;
\* when the probe or the login fails the answer is {success: false, error}
\* and every registry is as it was before the request.
C9_ConnectOnlyAfterProbe ==
    [][/\ \A url \in Urls, username \in Users :
              WebdavConnect(url, username) \/ WebdavConnectV1(url, username)
              => clients' = clients
       /\ \A i \in 1..MaxConnects :
              WebdavConnectSettled(i, FALSE)
              => clients' = clients /\ ConnectFailure(out')
       /\ \A userName \in Names :
              AliyunConnect(TRUE, userName)
              => clients' = clients /\ ConnectFailure(out')
       /\ \A url \in AlistUrls, hasCredentials \in BOOLEAN,
             loginCode200 \in BOOLEAN, loginHasToken \in BOOLEAN,
             probeCode200 \in BOOLEAN :
              /\ AlistConnect(url, hasCredentials, loginCode200,
                     loginHasToken, probeCode200)
              /\ (hasCredentials /\ ~loginCode200) \/ ~probeCode200
              => clients' = clients /\ ConnectFailure(out')
       /\ \A cookie \in {"", "cookie"} :
              QuarkConnect(cookie, FALSE)
              => clients' = clients /\ ConnectFailure(out')
       /\ out.op = "none" /\ out'.op = "connect" /\ clients' # clients
              => out'.success = "true" /\ out'.remote
      ]_vars

\* C9 witness: a connect whose probe failed has been answered while a
\* registry holds a session
C9_Witness ==
    /\ ConnectFailure(out)
    /\ out.remote
    /\ \E registry \in Registries : DOMAIN clients[registry] # {}

\* C10: list and stream requests never add, remove or modify an entry of
\* a session registry.
C10_ListStreamKeepRegistries ==
    [][out.op = "none" /\ out'.op \in {"list", "stream"}
           => clients' = clients]_vars

C21_OneKindPerClientId ==
    /\ \A r1 \in Registries, r2 \in Registries :
           r1 # r2 => DOMAIN clients[r1] \cap DOMAIN clients[r2] = {}
    /\ serverUp =>
           \A registry \in Registries, other \in Registries :
               \A clientId \in DOMAIN clients[other] :
                   registry # other =>
                       \A ok \in BOOLEAN, h \in RangeChoices(SessionRanges) :
                           /\ ListReply(registry, clientId, ok)
                                  = NotConnected("list")
                           /\ StreamReply(registry, clientId, ok, h[1], h[2])
                                  = NotConnected("stream")

\* C21 witness: two kinds hold sessions created in the same millisecond,
\* and a list request has just been answered not-connected
C21_Witness ==
    /\ out = NotConnected("list")
    /\ \E r1 \in Registries, r2 \in Registries, t \in 0..MaxClock :
           /\ r1 # r2
           /\ MapHas(clients[r1], ClientId(Prefix(r1), t))
           /\ MapHas(clients[r2], ClientId(Prefix(r2), t))

----------------------------------------------------------------------------
(* Properties of the listings.                                             *)

\* a list or scan request was answered with a listing
Listed ==
    /\ req.handler \in ListHandlers \cup {"localScan", "libraryList"}
    /\ res.status = 200

\* the characters of the names, in ascending order
Alphabet ==
    <<".", "0", "1", "2", "3", "4", "5", "6", "7", "8", "9">> \o LowerCase

Rank(c) == CHOOSE k \in 1..Len(Alphabet) : Alphabet[k] = c

\* a <= b, the names compared character by character
RECURSIVE NameLeq(_, _)
NameLeq(a, b) ==
    IF a = <<>> THEN TRUE
    ELSE IF b = <<>> THEN FALSE
    ELSE IF Head(a) = Head(b) THEN NameLeq(Tail(a), Tail(b))
    ELSE Rank(Head(a)) < Rank(Head(b))

\* C16: the items of a listing are ordered with all directories before all
\* files and, inside each group, ascending by name compared
\* case-insensitively, whatever order the entries were delivered in.
C16_ListSorted ==
    Listed =>
        \A i \in 1..Len(res.items), j \in 1..Len(res.items) :
            i < j =>
                LET a == res.items[i]
                    b == res.items[j]
                IN  /\ ~(a.type # "directory" /\ b.type = "directory")
                    /\ (a.type = "directory") = (b.type = "directory")
                           => NameLeq(ToLowerCase(a.name), ToLowerCase(b.name))

\* the extensions of the audio files
C17_Extensions ==
    { <<".", "m", "p", "3">>, <<".", "w", "a", "v">>, <<".", "f", "l", "a", "c">>,
      <<".", "o", "g", "g">>, <<".", "m", "4", "a">>, <<".", "a", "a", "c">>,
      <<".", "w", "m", "a">> }

CloudChildrenOnly ==
    /\ Len(res.items) = Len(req.inputs.entries)
    /\ \A i \in 1..Len(res.items) : res.items[i].name = req.inputs.entries[i].name

\* the items of a scan are files of the scanned directory itself
ScanChildrenOnly ==
    \A i \in 1..Len(res.items) :
        /\ Len(res.items[i].fullPath) = 1
        /\ \E k \in 1..Len(req.inputs.tree) :
               /\ ~req.inputs.tree[k].dir
               /\ req.inputs.tree[k].name = res.items[i].name

C19_PartialFailure ==
    LET cloud == /\ req.handler \in ListHandlers
                 /\ req.inputs.connected
                 /\ req.inputs.remoteOk
        scan == \/ /\ req.handler = "localScan"
                   /\ req.inputs.hasPath
                   /\ req.inputs.accessOk
                   /\ req.inputs.isDirectory
                \/ /\ req.handler = "libraryList"
                   /\ req.inputs.exists
    IN  /\ cloud =>
               /\ res.status = 200
               /\ \A i \in 1..Len(req.inputs.entries) :
                      req.inputs.entries[i].ok =>
                          \E k \in 1..Len(res.items) :
                              res.items[k].name = req.inputs.entries[i].name
        /\ scan =>
               /\ res.status = 200
               /\ \A i \in 1..Len(req.inputs.tree) :
                      LET e == req.inputs.tree[i]
                      IN  ~e.dir /\ e.ok /\ IncludesAudioExtension(e.name) =>
                              \E k \in 1..Len(res.items) :
                                  res.items[k].fullPath = <<e.name>>

----------------------------------------------------------------------------
(* Properties of the event loop.                                           *)

\* C20: no handler holds the event loop for the duration of a disk,
\* subprocess or network operation: while the operation of one request is
\* in progress, the loop can run the ready handler of every other request.
C20_LoopNeverHeldDuringIO ==
    \A i \in 1..MaxTasks, j \in 1..MaxTasks :
        i # j /\ tasks[i].inIO /\ Ready(j) => CanRun(j)

----------------------------------------------------------------------------
(* Properties of the player.                                               *)

\* C22: with shuffle off, when a track ends: in repeat mode 'one' the same
\* index and the same track are played again; in mode 'all' the player
\* starts the track at (currentIndex + 1) mod the playlist length; in mode
\* 'none' it starts the track at currentIndex + 1 when the current index is
\* before the last one and otherwise stops with currentIndex unchanged.
C22_TrackEndedAdvance ==
    [][onTrackEnded /\ ~isShuffle =>
           LET n == Len(playlist)
               Started(index) ==
                   /\ currentIndex' = index
                   /\ audio' = [src |-> TrackAt(playlist, index),
                                state |-> "started"]
           IN  CASE repeatMode = "one" ->
                       /\ currentIndex' = currentIndex
                       /\ audio' = audio
                 [] repeatMode = "all" ->
                       n > 0 => Started((currentIndex + 1) % n)
                 [] OTHER ->
                       IF currentIndex < n - 1
                       THEN Started(currentIndex + 1)
                       ELSE /\ currentIndex' = currentIndex
                            /\ audio'.state = "ended"
                            /\ audio'.src = audio.src
      ]_vars

\* C22 witness: with shuffle off and repeat mode 'none', the last track of
\* a playlist of two or more tracks has ended and the player has stopped
\* on it
C22_Witness ==
    /\ ~isShuffle
    /\ repeatMode = "none"
    /\ Len(playlist) >= 2
    /\ currentIndex = Len(playlist) - 1
    /\ audio = [src |-> TrackAt(playlist, currentIndex), state |-> "ended"]

----------------------------------------------------------------------------
(* Properties of the batch identification.                                 *)

\* the background loops that have not finished iterating
ActiveLoops == {k \in 1..MaxLoops : loops[k] # NoLoop}

\* C24: at most one background loop of /api/scan/start runs at any time,
\* and as long as a loop started earlier has not finished iterating,
\* scanProgress.isScanning is set, so that a start is rejected.
C24_OneScanLoop ==
    /\ Cardinality(ActiveLoops) <= 1
    /\ ActiveLoops # {} => scanProgress.isScanning

\* C25: once /api/scan/stop has answered success, and until the next
\* request to start or stop is answered, no further file is identified:
\* current, currentFile and results of scanProgress stay as they are and
\* isScanning stays false.
C25_StopStopsScan ==
    [][scanOut = ScanReply("stop", TRUE, "none") /\ scanOut' = scanOut
           => /\ scanProgress'.current = scanProgress.current
              /\ scanProgress'.currentFile = scanProgress.currentFile
              /\ scanProgress'.results = scanProgress.results
              /\ ~scanProgress'.isScanning]_vars

\* C28: currentIndex is -1 or a valid index of the playlist, and when not
\* -1 it designates the track that was last started, the one the audio
\* element holds.
C28_CurrentIndexValid ==
    currentIndex # -1 =>
        /\ 0 <= currentIndex /\ currentIndex < Len(playlist)
        /\ TrackAt(playlist, currentIndex) = audio.src

\* C29: once the three start-up loads have completed, in whatever order
\* their answers arrived, and before the user has acted, the playlist
\* holds every track of /api/library/list and of /api/files and no track
\* twice.
C29_StartupLoadsComplete ==
    /\ loads = [playlist |-> "done", library |-> "done", files |-> "done"]
    /\ userInputs = 0
    => /\ \A k \in 1..Len(LibraryFiles) : ~NotInList(playlist, LibraryFiles[k])
       /\ \A k \in 1..Len(UploadedFiles) : ~NotInList(playlist, UploadedFiles[k])
       /\ \A i \in 1..Len(playlist), j \in 1..Len(playlist) :
              playlist[i] = playlist[j] => i = j

\* C30: automatic skipping after a playback error terminates, also when
\* every track fails to play: the user acting finitely often, from some
\* point on no timer of onError starts another track.
C30_AutoSkipTerminates ==
    world.broken = Tracks =>
        <>[][~(TimerFires /\ audio'.state = "started")]_vars

----------------------------------------------------------------------------
(* Properties of the library paths.                                        *)

\* the resolved path is libraryDir itself or lies in its directory tree
InLibraryTree(fullPath) ==
    \/ fullPath = libraryDir
    \/ StartsWith(fullPath, libraryDir \o <<"/">>)

\* C27: the library stream and cover handlers answer 403 to every request
\* whose path resolves outside the libraryDir directory tree, '..' segments
\* and sibling directories with a common name prefix included.
C27_LibraryPathConfined ==
    /\ req.handler \in {"libraryStream", "libraryCover"}
    /\ req.handler = "libraryCover" => req.hasModule
    /\ ~InLibraryTree(PathJoin(libraryDir, req.filepath))
    => res.status = 403

----------------------------------------------------------------------------
(* Properties of the piped stream responses.                               *)

\* C7: when the source of a stream fails after the head was sent, that
\* response is terminated, and the process, the registries and every other
\* stream are as they were.
C7_SourceFailureIsolated ==
    [][\A i \in 1..MaxStreams :
           streams[i].source = "open" /\ streams'[i].source = "errored"
           => /\ streams'[i].response # "streaming"
              /\ serverUp'
              /\ clients' = clients
              /\ \A j \in 1..MaxStreams \ {i} : streams'[j] = streams[j]
      ]_vars

\* C8: when the client has closed its connection during a stream response,
\* the server eventually releases the source of that stream.
C8_ClientCloseReleasesSource ==
    \A i \in 1..MaxStreams :
        (streams[i].response = "closed") ~> streams[i].released

====
